---- MODULE Spec2Model ----
(***************************************************************************)
(* PlotWeave web client: the streaming chat sessions (WorldSetupPage,      *)
(* ChapteringPage), the chapter-writing screen, the outline screen and the *)
(* phase workflow that connects them, as one state machine.                *)
(*                                                                         *)
(* One page component is mounted at a time.  Its React state is the        *)
(* page-local part of the state; mounting a page (navigation, reload)      *)
(* resets it to the useState initial values.  Asynchronous handlers are    *)
(* cut at their await points: every action is one synchronous run of       *)
(* handler code between two awaits, followed by React's re-render.         *)
(* Strings are sequences of symbols; s \o t is string concatenation.       *)
(***************************************************************************)
EXTENDS Integers, Sequences, FiniteSets, TLC

\* ------------------------------------------------------------------ bounds
\* SpecChat: submissions per mounted chat page, and stream payloads
\* delivered to it (all turns together)
MaxTurns == 2
MaxEvents == 3
\* Spec (the whole application): the same two bounds
MaxFlowTurns == 1
MaxFlowEvents == 1
\* PUT requests on their way to the backend at one time
MaxPending == 2
\* chapters of the project
NChapters == 4
\* handleGenerate invocations in flight at one time
MaxGens == 2
\* generate and save requests the user issues during one run
MaxWrites == 1
\* payloads the generation streams of one mounted writing page deliver
MaxWriteEvents == 1
\* SpecGroup: messages of a list given to the grouped view
MaxMessages == 5
\* SpecDecoder: complete frames of a response body, and characters one
\* read delivers
MaxFrames == 2
MaxRead == 12
\* SpecStream: payloads the generation streams of one writing page deliver
MaxStreamEvents == 2
\* SpecLayout: runs of the heartbeat effect, and interval callbacks run
MaxEffects == 3
MaxTicks == 2
\* SpecBusy: generate and save requests the user issues during one run
MaxBusyWrites == 2

\* ------------------------------------------------------- program constants
OUTLINE == 0
WORLD_SETUP == 1
CHAPERING == 2
CHAPER_WRITING == 3

Phases == {OUTLINE, WORLD_SETUP, CHAPERING, CHAPER_WRITING}

\* an optional value (T | null) is <<>> or <<v>>
None == <<>>
Some(v) == <<v>>

\* the routes of App.tsx below /projects/:projectId
Screens == {"outline", "world-setup", "chaptering", "chapter-writing"}
ChatScreens == {"world-setup", "chaptering"}

\* the phase a screen's mutating actions belong to
PhaseOfScreen(s) ==
  CASE s = "outline" -> OUTLINE
    [] s = "world-setup" -> WORLD_SETUP
    [] s = "chaptering" -> CHAPERING
    [] s = "chapter-writing" -> CHAPER_WRITING

\* ------------------------------------------------------------ input values
\* texts the user can have in the chat input: empty, blank, two real texts
Inputs == {<<>>, <<" ">>, <<"h", "i">>}

\* String.prototype.trim on a symbol sequence: strip blanks at both ends
RECURSIVE TrimLeft(_)
TrimLeft(s) == IF s # <<>> /\ Head(s) = " " THEN TrimLeft(Tail(s)) ELSE s
RECURSIVE TrimRight(_)
TrimRight(s) ==
  IF s # <<>> /\ s[Len(s)] = " " THEN TrimRight(SubSeq(s, 1, Len(s) - 1)) ELSE s
Trim(s) == TrimRight(TrimLeft(s))

\* a decoded stream payload: unparseable text, or the parsed JSON object
BadChunk == [json |-> FALSE, type |-> "", data |-> <<>>]
Chunk(t, d) == [json |-> TRUE, type |-> t, data |-> d]
\* a token text longer than the error marker
LongText == <<"b", "b", "b", "b", "b", "b", "b", "b", "b", "b">>
Chunks ==
  {Chunk("thinking", <<"a">>), Chunk("tool_result", <<"a">>),
   Chunk("token", <<"a">>), Chunk("token", LongText),
   Chunk("content_chunk", <<"a">>), Chunk("content_chunk", <<"b">>),
   Chunk("end", <<>>), Chunk("error", <<"a">>),
   Chunk("ping", <<>>), BadChunk}

VARIABLES
  \* backend (external collaborator)
  serverPhase,      \* persisted project phase
  serverOutline,    \* persisted outline document
  serverChapters,   \* persisted chapter contents, by position
  serverCursor,     \* the writable cursor (current_chapter_index)
  serverJob,        \* the chapter the writing agent is working on, if any
  writes,           \* generate and save requests issued during the run
  pending,          \* PUT requests issued and not yet answered, oldest first
  \* the user's latest gesture and what became of it (history)
  last,
  \* the mounted page
  screen,           \* which route is mounted
  project,          \* useState<ProjectMetadata | null>: None or Some(phase)
  error,            \* useState<string | null>: None or Some(message tag)
  projectFetch,     \* the mount effect's GET /api/projects/:id: "pending" | "done"
  \* chat pages (WorldSetupPage, ChapteringPage)
  messages,         \* useState<Message[]>
  input,            \* useState("")
  isLoading,        \* useState(false)
  turns,            \* handleSubmit invocations of this page not yet finished
  now,              \* Date.now() of the next submission
  evUsed,           \* stream payloads delivered to this page so far
  \* OutlinePage
  outline,          \* useState<OutlineData | null>
  projectPhase,     \* useState<ProjectPhase | null>
  yamlText,         \* useState("")
  outlineIsLoading, \* useState(true)
  saveStatus,       \* useState<SaveStatus>("idle")
  debounceTimer,    \* the pending setTimeout of the auto-save effect
  \* ChapterWritingPage (chapters, chapterFetches: ChapteringPage too)
  chapters,             \* useState<ChapterWritingInfo[]>([])
  selectedChapterIndex, \* useState<number | null>(null)
  currentWritableIndex, \* useState<number | null>(null)
  currentContent,       \* useState("")
  isGenerating,         \* useState(false)
  isSaving,             \* useState(false)
  writingLogs,          \* useState<WritingLog[]>([])
  gens,                 \* handleGenerate invocations in their try block
  chapterFetches,       \* fetchChapters calls not yet completed
  cursorAsked,          \* a fetchWritableIndex call the backend has not served yet
  cursorReplies,        \* cursor values read for this page, replies on their way
  \* ProjectLayout and its ProjectSidebar
  layoutProject,        \* useParams().projectId of the mounted layout, if any
  isProjectActive,      \* useState(false)
  layoutError,          \* useState<string | null>(null)
  heartbeatEffects,     \* the runs of the heartbeat effect, oldest first
  renewals,             \* renewal calls not yet answered, by effect run
  ticks,                \* interval callbacks run so far
  sidebarProject,       \* useState<ProjectMetadata | null>: None or Some(phase)
  sidebarFetches        \* fetchProject calls of the sidebar not yet answered

layoutVars ==
  <<layoutProject, isProjectActive, layoutError, heartbeatEffects, renewals,
    ticks, sidebarProject, sidebarFetches>>

\* the backend and the routed page
appVars ==
  <<serverPhase, serverOutline, serverChapters, serverCursor, serverJob, writes,
    pending, last,
    screen, project, error, projectFetch,
    messages, input, isLoading, turns, now, evUsed,
    outline, projectPhase, yamlText, outlineIsLoading, saveStatus, debounceTimer,
    chapters, selectedChapterIndex, currentWritableIndex, currentContent,
    isGenerating, isSaving, writingLogs, gens, chapterFetches, cursorAsked, cursorReplies>>

vars == <<appVars, layoutVars>>

backendVars ==
  <<serverPhase, serverOutline, serverChapters, serverCursor, serverJob, writes,
    pending>>
storeVars ==
  <<serverPhase, serverOutline, serverChapters, serverCursor, serverJob, writes>>
pageVars == <<screen, project, error, projectFetch>>
writingVars ==
  <<chapters, selectedChapterIndex, currentWritableIndex, currentContent,
    isGenerating, isSaving, writingLogs, gens, chapterFetches, cursorAsked, cursorReplies>>
\* writingVars without chapterFetches
writingRest ==
  <<chapters, selectedChapterIndex, currentWritableIndex, currentContent,
    isGenerating, isSaving, writingLogs, gens, cursorAsked, cursorReplies>>
chatVars == <<messages, input, isLoading, turns, now, evUsed>>
outlineVars ==
  <<outline, projectPhase, yamlText, outlineIsLoading, saveStatus, debounceTimer>>

\* ------------------------------------------------------- gestures (history)
\* the user's gesture act, whether the page acted on it (ok), and the page
\* state it met: local phase, busy flag, selected index, cursor, and whether
\* the editor content was the persisted one
Attempt(act, ok, phase, busy, idx, cur, clean) ==
  [act |-> act, ok |-> ok, screen |-> screen, phase |-> phase, busy |-> busy,
   idx |-> idx, cur |-> cur, clean |-> clean]
\* a gesture on the writing page: what was tried, on which chapter, and
\* whether the page acted on it
Gesture(act, ok, idx) == Attempt(act, ok, None, FALSE, idx, None, TRUE)
NoAttempt ==
  [act |-> "none", ok |-> FALSE, screen |-> "none", phase |-> None, busy |-> FALSE,
   idx |-> None, cur |-> None, clean |-> TRUE]

\* ----------------------------------------------------------------- helpers
RemoveAt(s, i) == SubSeq(s, 1, i - 1) \o SubSeq(s, i + 1, Len(s))
SetAt(s, i, v) == [s EXCEPT ![i] = v]

\* ================================================================ chat pages
\* Message of lib/types: id, role, content, optional type ("none" = absent)
MsgId(kind, t, r) == [kind |-> kind, t |-> t, r |-> r]
Msg(id, role, content, type) ==
  [id |-> id, role |-> role, content |-> content, type |-> type]
\* what prev[prev.length - 1] yields on an empty array
Undefined == Msg(MsgId("undefined", 0, 0), "undefined", <<>>, "undefined")

\* `**错误:** `, one symbol per character (eight), and `\n\n**连接错误！**`
\* as one symbol
ErrorMarker == <<"*", "*", "cuo", "wu", ":", "*", "*", " ">>
ConnErrorMarker == <<"[connection-error]">>

\* userMessage of handleSubmit
UserMessage(t, text) == Msg(MsgId("user", t, 0), "user", text, "none")
\* assistantPlaceholder of handleSubmit
AssistantPlaceholder(t) == Msg(MsgId("assistant", t, 0), "assistant", <<>>, "final")
\* variant: a log id made of the time of the turn alone
NewLogByTime(prev, t, c) ==
  Msg(MsgId("log", t, 0), "assistant", c.data, c.type)

\* newLog of the thinking/tool_result case; Math.random() is a value no
\* earlier log of the transcript carries
NewLog(prev, t, c) ==
  Msg(MsgId("log", t, Len(prev)), "assistant", c.data, c.type)

\* variant: the two messages of a turn in the opposite order
AppendTurnReversed(prev, userMessage, placeholder) ==
  prev \o <<placeholder, userMessage>>

\* setMessages((prev) => [...prev, userMessage, assistantPlaceholder])
AppendTurn(prev, userMessage, placeholder) ==
  prev \o <<userMessage, placeholder>>

\* variant: the log goes to the tail, behind the placeholder
AppendLog(prev, newLog) == prev \o <<newLog>>

\* setMessages of the thinking/tool_result case: [...rest, newLog, last]
InsertLog(prev, newLog) ==
  IF prev = <<>>
    THEN <<newLog, Undefined>>
    ELSE SubSeq(prev, 1, Len(prev) - 1) \o <<newLog, prev[Len(prev)]>>

\* variant: a token that is already the tail of the content is not appended
EndsWith(s, t) ==
  /\ Len(s) >= Len(t)
  /\ \A k \in 1..Len(t) : s[Len(s) - Len(t) + k] = t[k]
AppendTokenOnce(prev, id, data) ==
  [i \in 1..Len(prev) |->
     IF prev[i].id = id /\ ~EndsWith(prev[i].content, data)
       THEN [prev[i] EXCEPT !.content = @ \o data]
       ELSE prev[i]]

\* variant: the token text is put in front of the content
PrependToken(prev, id, data) ==
  [i \in 1..Len(prev) |->
     IF prev[i].id = id
       THEN [prev[i] EXCEPT !.content = data \o @]
       ELSE prev[i]]

\* variant: the token is appended to every assistant message
AppendTokenToAssistant(prev, id, data) ==
  [i \in 1..Len(prev) |->
     IF prev[i].role = "assistant"
       THEN [prev[i] EXCEPT !.content = @ \o data]
       ELSE prev[i]]

\* setMessages of the token case: append to every message with that id
AppendToken(prev, id, data) ==
  [i \in 1..Len(prev) |->
     IF prev[i].id = id
       THEN [prev[i] EXCEPT !.content = @ \o data]
       ELSE prev[i]]

\* setMessages of WorldSetupPage's error case: overwrite the content
WriteError(prev, id, data) ==
  [i \in 1..Len(prev) |->
     IF prev[i].id = id
       THEN [prev[i] EXCEPT !.content = ErrorMarker \o data]
       ELSE prev[i]]

\* setMessages of WorldSetupPage's catch block
AppendConnError(prev, id) ==
  [i \in 1..Len(prev) |->
     IF prev[i].id = id
       THEN [prev[i] EXCEPT !.content = @ \o ConnErrorMarker]
       ELSE prev[i]]

\* variant: a payload that does not parse ends up in the catch block of the
\* request
WorldSetupApplyOrFail(prev, pid, t, c) ==
  IF ~c.json THEN AppendConnError(prev, pid)
  ELSE CASE c.type \in {"thinking", "tool_result"} -> InsertLog(prev, NewLog(prev, t, c))
         [] c.type = "token" -> AppendToken(prev, pid, c.data)
         [] c.type = "error" -> WriteError(prev, pid, c.data)
         [] OTHER -> prev

\* the switch of WorldSetupPage.handleSubmit on one payload
WorldSetupApply(prev, pid, t, c) ==
  IF ~c.json THEN prev
  ELSE CASE c.type \in {"thinking", "tool_result"} -> InsertLog(prev, NewLog(prev, t, c))
         [] c.type = "token" -> AppendToken(prev, pid, c.data)
         [] c.type = "error" -> WriteError(prev, pid, c.data)
         [] OTHER -> prev

\* the switch of ChapteringPage.handleSubmit on one payload
ChapteringApply(prev, pid, t, c) ==
  IF ~c.json THEN prev
  ELSE CASE c.type \in {"thinking", "tool_result"} -> InsertLog(prev, NewLog(prev, t, c))
         [] c.type = "token" -> AppendToken(prev, pid, c.data)
         [] OTHER -> prev

\* variant: the gate is open until the project is loaded
WorldSetupReadOnlyOnceLoaded == project # None /\ project[1] # WORLD_SETUP
\* isReadOnly of the two chat pages
WorldSetupIsReadOnly == project = None \/ project[1] # WORLD_SETUP
ChapteringIsReadOnly == project = None \/ project[1] # CHAPERING
ChatIsReadOnly ==
  IF screen = "world-setup" THEN WorldSetupIsReadOnly ELSE ChapteringIsReadOnly

\* disabled={isLoading || isReadOnly} of the Input and the submit Button
ChatFormDisabled == isLoading \/ ChatIsReadOnly

\* the early return of handleSubmit
HandleSubmitReturnsEarly(inp, loading) == Trim(inp) = <<>> \/ loading

\* variant: handleSubmit leaves isLoading as it is
LoadingNotSet == FALSE

\* setIsLoading(true) of handleSubmit
LoadingAfterSubmit == TRUE

UserCount(msgs) == Cardinality({i \in 1..Len(msgs) : msgs[i].role = "user"})

\* onChange of the Input
ChatSetInput(v) ==
  /\ screen \in ChatScreens
  /\ error = None
  /\ ~ChatFormDisabled
  /\ v # input
  /\ input' = v
  /\ UNCHANGED <<backendVars, last, pageVars, outlineVars, writingVars,
                 messages, isLoading, turns, now, evUsed>>
  /\ UNCHANGED layoutVars

\* the user submits the form: handleSubmit up to its first await (the POST
\* .../chat/stream is issued), or nothing when the form is disabled or the
\* handler returns early
ChatSubmit(maxTurns) ==
  /\ screen \in ChatScreens
  /\ error = None
  /\ IF ChatFormDisabled \/ HandleSubmitReturnsEarly(input, isLoading)
       THEN /\ last' = Attempt("submit", FALSE, project, isLoading, None, None, TRUE)
            /\ UNCHANGED <<backendVars, pageVars, outlineVars, writingVars, chatVars>>
       ELSE /\ UserCount(messages) < maxTurns
            /\ last' = Attempt("submit", TRUE, project, isLoading, None, None, TRUE)
            /\ isLoading' = LoadingAfterSubmit
            /\ messages' = AppendTurn(messages, UserMessage(now, input),
                                      AssistantPlaceholder(now))
            /\ input' = <<>>
            /\ turns' = Append(turns, [pid |-> AssistantPlaceholder(now).id,
                                       pc |-> "fetch", sent |-> input,
                                       received |-> <<>>,
                                       sentBody |-> <<>>, body |-> <<>>,
                                       buffer |-> <<>>, yielded |-> <<>>])
            /\ now' = now + 1
            /\ UNCHANGED <<backendVars, pageVars, outlineVars, writingVars, evUsed>>
  /\ UNCHANGED layoutVars

\* the response arrives with ok status and a body: the for-await loop starts
ChatResponseOk(i) ==
  /\ screen \in ChatScreens
  /\ i \in 1..Len(turns)
  /\ turns[i].pc = "fetch"
  /\ turns' = SetAt(turns, i, [turns[i] EXCEPT !.pc = "stream"])
  /\ UNCHANGED <<backendVars, last, pageVars, outlineVars, writingVars,
                 messages, input, isLoading, now, evUsed>>
  /\ UNCHANGED layoutVars

\* catch block of handleSubmit
ChatCatch(prev, pid) ==
  IF screen = "world-setup" THEN AppendConnError(prev, pid) ELSE prev

\* a fetchChapters call in flight: its selectFirst argument, the
\* currentWritableIndex its closure holds, and whether handleGenerate's
\* finally block awaits it to call fetchWritableIndex next
ChapterFetch(selectFirst, cur, thenCursor) ==
  [selectFirst |-> selectFirst, cur |-> cur, thenCursor |-> thenCursor]
PlainChapterFetch == ChapterFetch(FALSE, None, FALSE)

\* fetchChapters() in ChapteringPage's tool_result case
ChapteringEventFetches(c) ==
  IF screen = "chaptering" /\ c.json /\ c.type = "tool_result"
    THEN chapterFetches \cup {PlainChapterFetch}
    ELSE chapterFetches

\* fetchChapters() in ChapteringPage's finally block
ChapteringFinallyFetches ==
  IF screen = "chaptering"
    THEN chapterFetches \cup {PlainChapterFetch}
    ELSE chapterFetches

\* fetch rejects or the response is not ok: throw, catch, finally
ChatResponseFail(i) ==
  /\ screen \in ChatScreens
  /\ i \in 1..Len(turns)
  /\ turns[i].pc = "fetch"
  /\ messages' = ChatCatch(messages, turns[i].pid)
  /\ isLoading' = FALSE
  /\ turns' = RemoveAt(turns, i)
  /\ UNCHANGED <<backendVars, last, pageVars, outlineVars, writingRest, input, now, evUsed>>
  /\ chapterFetches' = ChapteringFinallyFetches
  /\ UNCHANGED layoutVars

\* one iteration of the for-await loop on payload c
ChatStreamEvent(i, c, maxEvents) ==
  /\ screen \in ChatScreens
  /\ i \in 1..Len(turns)
  /\ turns[i].pc = "stream"
  /\ evUsed < maxEvents
  /\ evUsed' = evUsed + 1
  /\ messages' =
       IF screen = "world-setup"
         THEN WorldSetupApply(messages, turns[i].pid, now, c)
         ELSE ChapteringApply(messages, turns[i].pid, now, c)
  /\ turns' = SetAt(turns, i, [turns[i] EXCEPT !.received = Append(@, c)])
  /\ UNCHANGED <<backendVars, last, pageVars, outlineVars, writingRest, input, isLoading, now>>
  /\ chapterFetches' = ChapteringEventFetches(c)
  /\ UNCHANGED layoutVars

\* variant: the loop exits without a finally block
ChatStreamDoneBusy(i) ==
  /\ screen \in ChatScreens
  /\ i \in 1..Len(turns)
  /\ turns[i].pc = "stream"
  /\ turns[i].body = <<>>
  /\ turns' = RemoveAt(turns, i)
  /\ UNCHANGED <<backendVars, last, pageVars, outlineVars, writingVars, messages,
                 input, isLoading, now, evUsed>>
  /\ UNCHANGED layoutVars

\* the stream signals end-of-data: the loop exits, finally runs
ChatStreamDone(i) ==
  /\ screen \in ChatScreens
  /\ i \in 1..Len(turns)
  /\ turns[i].pc = "stream"
  /\ turns[i].body = <<>>
  /\ isLoading' = FALSE
  /\ turns' = RemoveAt(turns, i)
  /\ UNCHANGED <<backendVars, last, pageVars, outlineVars, writingRest, messages, input, now, evUsed>>
  /\ chapterFetches' = ChapteringFinallyFetches
  /\ UNCHANGED layoutVars

\* reader.read() rejects: catch, finally
ChatStreamFail(i) ==
  /\ screen \in ChatScreens
  /\ i \in 1..Len(turns)
  /\ turns[i].pc = "stream"
  /\ messages' = ChatCatch(messages, turns[i].pid)
  /\ isLoading' = FALSE
  /\ turns' = RemoveAt(turns, i)
  /\ UNCHANGED <<backendVars, last, pageVars, outlineVars, writingRest, input, now, evUsed>>
  /\ chapterFetches' = ChapteringFinallyFetches
  /\ UNCHANGED layoutVars

\* --------------------------------------------------- streamAsyncIterator
\* Text on the wire is a sequence of characters; a JSON text is one symbol.
Delimiter == <<"\n", "\n">>
DataPrefix == <<"d", "a", "t", "a", ":", " ">>
\* {"type":"token","data":"Hi"} and {"type":"end","data":""}
TokenHi == "{token:Hi}"
EndJson == "{end}"

\* String.prototype.startsWith
StartsWith(s, t) == Len(s) >= Len(t) /\ SubSeq(s, 1, Len(t)) = t

\* where the first "\n\n" of s starts, 0 when s has none
FirstDelimiter(s) ==
  LET at == {k \in 1..(Len(s) - 1) : s[k] = "\n" /\ s[k + 1] = "\n"}
  IN IF at = {} THEN 0 ELSE CHOOSE k \in at : \A j \in at : k <= j

\* buffer.split("\n\n")
RECURSIVE Split(_)
Split(s) ==
  LET k == FirstDelimiter(s)
  IN IF k = 0 THEN <<s>>
     ELSE <<SubSeq(s, 1, k - 1)>> \o Split(SubSeq(s, k + 2, Len(s)))

\* variant: the fragment behind the last delimiter is thrown away
HeldBackNothing(parts) == <<>>

\* variant: the fragment is kept without the line break at its end
HeldBackTrimmed(parts) ==
  LET rest == parts[Len(parts)]
  IN IF rest # <<>> /\ rest[Len(rest)] = "\n"
       THEN SubSeq(rest, 1, Len(rest) - 1) ELSE rest

\* buffer = parts.pop() || ""
HeldBack(parts) == parts[Len(parts)]

\* variant: the part is yielded with its field prefix
WholePart(part) == part

\* part.substring(6)
Substring6(part) == SubSeq(part, 7, Len(part))

\* the for loop over the parts left after the pop: what it yields
RECURSIVE Yields(_)
Yields(parts) ==
  IF parts = <<>> THEN <<>>
  ELSE (IF StartsWith(Head(parts), DataPrefix)
          THEN <<Substring6(Head(parts))>>
          ELSE <<>>) \o Yields(Tail(parts))

\* JSON.parse of a payload: white space around the JSON text is skipped,
\* any other text is a SyntaxError
RECURSIVE SkipSpaceLeft(_)
SkipSpaceLeft(s) ==
  IF s # <<>> /\ Head(s) \in {" ", "\n"} THEN SkipSpaceLeft(Tail(s)) ELSE s
RECURSIVE SkipSpaceRight(_)
SkipSpaceRight(s) ==
  IF s # <<>> /\ s[Len(s)] \in {" ", "\n"}
    THEN SkipSpaceRight(SubSeq(s, 1, Len(s) - 1)) ELSE s
JsonParse(payload) ==
  LET text == SkipSpaceRight(SkipSpaceLeft(payload))
  IN IF text = <<TokenHi>> THEN Chunk("token", <<"H", "i">>)
     ELSE IF text = <<EndJson>> THEN Chunk("end", <<>>)
     ELSE BadChunk

\* the body of the for-await loop on the payloads one read yields:
\* if (chunk) { JSON.parse; switch }
RECURSIVE ApplyPayloads(_, _, _, _)
ApplyPayloads(prev, pid, t, payloads) ==
  IF payloads = <<>> THEN prev
  ELSE LET c == JsonParse(Head(payloads))
           next == IF Head(payloads) = <<>> THEN prev
                   ELSE IF screen = "world-setup"
                     THEN WorldSetupApply(prev, pid, t, c)
                     ELSE ChapteringApply(prev, pid, t, c)
       IN ApplyPayloads(next, pid, t, Tail(payloads))

\* the payloads that passed if (chunk), parsed
RECURSIVE Parsed(_)
Parsed(payloads) ==
  IF payloads = <<>> THEN <<>>
  ELSE (IF Head(payloads) = <<>> THEN <<>> ELSE <<JsonParse(Head(payloads))>>)
         \o Parsed(Tail(payloads))

\* the response arrives with ok status and the body w: the for-await loop
\* starts
ChatResponseBody(i, w) ==
  /\ screen \in ChatScreens
  /\ i \in 1..Len(turns)
  /\ turns[i].pc = "fetch"
  /\ turns' = SetAt(turns, i, [turns[i] EXCEPT !.pc = "stream",
                                              !.sentBody = w, !.body = w])
  /\ UNCHANGED <<backendVars, last, pageVars, outlineVars, writingVars,
                 messages, input, isLoading, now, evUsed>>
  /\ UNCHANGED layoutVars

\* reader.read() resolves with the next n characters of the body: they
\* join the buffer, the complete parts are yielded and go through the loop
\* body one after the other
ChatStreamRead(i, n) ==
  /\ screen \in ChatScreens
  /\ i \in 1..Len(turns)
  /\ turns[i].pc = "stream"
  /\ n \in 1..Len(turns[i].body)
  /\ LET value == SubSeq(turns[i].body, 1, n)
         parts == Split(turns[i].buffer \o value)
         out == Yields(SubSeq(parts, 1, Len(parts) - 1))
     IN /\ turns' = SetAt(turns, i,
             [turns[i] EXCEPT !.body = SubSeq(@, n + 1, Len(@)),
                              !.buffer = HeldBack(parts),
                              !.yielded = @ \o out,
                              !.received = @ \o Parsed(out)])
        /\ messages' = ApplyPayloads(messages, turns[i].pid, now, out)
        /\ chapterFetches' =
             IF \E k \in 1..Len(out) :
                  out[k] # <<>> /\ ChapteringEventFetches(JsonParse(out[k])) # chapterFetches
               THEN chapterFetches \cup {PlainChapterFetch}
               ELSE chapterFetches
  /\ UNCHANGED <<backendVars, last, pageVars, outlineVars, writingRest,
                 input, isLoading, now, evUsed>>
  /\ UNCHANGED layoutVars

\* payloads a chat stream carries
ChatChunks == {c \in Chunks : c.type # "content_chunk"}
FlowChunks == {Chunk("token", <<"a">>), Chunk("thinking", <<"a">>)}

\* a PUT request on its way to the backend; phase is the local phase the
\* issuing page held (history), alive: the issuing JavaScript context still
\* exists, mounted: the issuing component is still mounted
Request(kind, val, phase) ==
  [kind |-> kind, val |-> val, phase |-> phase, alive |-> TRUE, mounted |-> TRUE]

\* variant: an advance that writes the phase after the next one
SkippedTarget == CHAPER_WRITING

\* the phase written by each page's handleAdvancePhase
OutlineAdvanceTarget == WORLD_SETUP
WorldSetupAdvanceTarget == CHAPERING
ChapteringAdvanceTarget == CHAPER_WRITING

\* {project?.phase === ProjectPhase.X && <Button onClick={handleAdvancePhase}>}
WorldSetupAdvanceRendered == project # None /\ project[1] = WORLD_SETUP
ChapteringAdvanceRendered == project # None /\ project[1] = CHAPERING

\* WorldSetupPage.handleAdvancePhase up to its await
WorldSetupAdvance ==
  /\ screen = "world-setup"
  /\ error = None
  /\ IF ~WorldSetupAdvanceRendered \/ project = None
       THEN /\ last' = Attempt("advance", FALSE, project, isLoading, None, None, TRUE)
            /\ UNCHANGED <<backendVars, pageVars, outlineVars, writingVars, chatVars>>
       ELSE /\ Len(pending) < MaxPending
            /\ last' = Attempt("advance", TRUE, project, isLoading, None, None, TRUE)
            /\ pending' = Append(pending, Request("advance", WorldSetupAdvanceTarget, project))
            /\ UNCHANGED <<storeVars, pageVars, outlineVars, writingVars, chatVars>>
  /\ UNCHANGED layoutVars

\* ChapteringPage.handleAdvancePhase up to its await
ChapteringAdvance ==
  /\ screen = "chaptering"
  /\ error = None
  /\ IF ~ChapteringAdvanceRendered \/ project = None
       THEN /\ last' = Attempt("advance", FALSE, project, isLoading, None, None, TRUE)
            /\ UNCHANGED <<backendVars, pageVars, outlineVars, writingVars, chatVars>>
       ELSE /\ Len(pending) < MaxPending
            /\ last' = Attempt("advance", TRUE, project, isLoading, None, None, TRUE)
            /\ pending' = Append(pending, Request("advance", ChapteringAdvanceTarget, project))
            /\ UNCHANGED <<storeVars, pageVars, outlineVars, writingVars, chatVars>>
  /\ UNCHANGED layoutVars

\* =============================================================== OutlinePage
\* a YAML document parsed: what kind of value it is, the types of its title
\* and plots members, and (id) which outline it denotes
Value(kind, title, plots, id) ==
  [kind |-> kind, title |-> title, plots |-> plots, id |-> id]
OutlineValue(id) == Value("object", "string", "strings", id)
OutlineDatas == {OutlineValue("A"), OutlineValue("B")}

\* texts the user can leave in the editor: two outlines, a YAML syntax
\* error, and the empty document
EditTexts == {"A", "B", "bad", ""}

\* YAML.parse: throws (ok = FALSE) or yields a value
YamlParse(text) ==
  CASE text \in {"A", "B"} -> [ok |-> TRUE, value |-> OutlineValue(text)]
    [] text = "" -> [ok |-> TRUE, value |-> Value("null", "absent", "absent", "")]
    [] OTHER -> [ok |-> FALSE, value |-> Value("none", "absent", "absent", "")]

\* YAML.stringify of an outline
YamlStringify(data) == data.id

\* variant: any parsed value passes the structural check
IsParsedData(data) == data.kind # "none"

\* isValidOutlineData
IsValidOutlineData(data) ==
  /\ data.kind = "object"
  /\ data.title = "string"
  /\ data.plots \in {"strings", "empty"}

\* variant: a loaded outline page is never read-only
OutlineNeverReadOnly == projectPhase = None

\* isReadOnly of OutlinePage
OutlineIsReadOnly == projectPhase = None \/ projectPhase[1] # OUTLINE

\* the page shows the editor (neither "loading" nor the error text)
OutlineShown == screen = "outline" /\ ~outlineIsLoading /\ error = None

\* the editor holds a document other than the persisted one
OutlineUnsaved ==
  \/ ~YamlParse(yamlText).ok
  \/ YamlParse(yamlText).value # serverOutline
\* a PUT of the outline is on its way
OutlineSaveInFlight ==
  \E k \in 1..Len(pending) : pending[k].kind = "outline" /\ pending[k].mounted

\* the timer the auto-save effect leaves armed after a render with these
\* values (its cleanup has cleared the one before)
DebounceEffect(text, phase) ==
  IF phase = None \/ phase[1] # OUTLINE THEN None ELSE Some(text)

\* fetchData: both GETs answer ok
OutlineFetchOk ==
  /\ screen = "outline"
  /\ projectFetch = "pending"
  /\ projectFetch' = "done"
  /\ outline' = Some(serverOutline)
  /\ project' = Some(serverPhase)
  /\ projectPhase' = Some(serverPhase)
  /\ yamlText' = YamlStringify(serverOutline)
  /\ saveStatus' = "success"
  /\ outlineIsLoading' = FALSE
  /\ debounceTimer' = DebounceEffect(YamlStringify(serverOutline), Some(serverPhase))
  /\ UNCHANGED <<backendVars, last, screen, error, chatVars, writingVars>>
  /\ UNCHANGED layoutVars

\* fetchData: a GET fails
OutlineFetchFail ==
  /\ screen = "outline"
  /\ projectFetch = "pending"
  /\ projectFetch' = "done"
  /\ error' = Some("fetch")
  /\ outlineIsLoading' = FALSE
  /\ UNCHANGED <<backendVars, last, screen, project, chatVars, writingVars,
                 outline, projectPhase, yamlText, saveStatus, debounceTimer>>
  /\ UNCHANGED layoutVars

\* setSaveStatus of handleEditorChange
StatusAfterEdit(status) ==
  IF status \in {"success", "error"} THEN "idle" ELSE status

\* the user changes the editor content to v: handleEditorChange, then the
\* auto-save effect re-arms its timer; a read-only editor takes no input
OutlineEdit(v) ==
  /\ OutlineShown
  /\ v # yamlText
  /\ IF OutlineIsReadOnly
       THEN /\ last' = Attempt("edit", FALSE, projectPhase, FALSE, None, None, TRUE)
            /\ UNCHANGED <<backendVars, pageVars, chatVars, outlineVars, writingVars>>
       ELSE /\ last' = Attempt("edit", TRUE, projectPhase, FALSE, None, None, TRUE)
            /\ saveStatus' = StatusAfterEdit(saveStatus)
            /\ yamlText' = v
            /\ debounceTimer' = DebounceEffect(v, projectPhase)
            /\ UNCHANGED <<backendVars, pageVars, chatVars, writingVars,
                           outline, projectPhase, outlineIsLoading>>
  /\ UNCHANGED layoutVars

\* the debounce timer fires: handleAutoSave(text) up to its await
HandleAutoSave ==
  /\ screen = "outline"
  /\ debounceTimer # None
  /\ debounceTimer' = None
  /\ IF OutlineIsReadOnly
       THEN UNCHANGED <<backendVars, saveStatus>>
       ELSE LET parsed == YamlParse(debounceTimer[1]) IN
            IF ~parsed.ok \/ ~IsValidOutlineData(parsed.value)
              THEN /\ saveStatus' = "error"
                   /\ UNCHANGED backendVars
              ELSE /\ Len(pending) < MaxPending
                   /\ saveStatus' = "saving"
                   /\ pending' = Append(pending, Request("outline", parsed.value, projectPhase))
                   /\ UNCHANGED storeVars
  /\ UNCHANGED <<last, pageVars, chatVars, writingVars, outline, projectPhase, yamlText, outlineIsLoading>>
  /\ UNCHANGED layoutVars

\* {projectPhase === ProjectPhase.OUTLINE && <Button ... disabled={saveStatus !== "success"}>}
OutlineAdvanceRendered == projectPhase # None /\ projectPhase[1] = OUTLINE
OutlineAdvanceDisabled == saveStatus # "success"
\* the early return of OutlinePage.handleAdvancePhase
OutlineAdvanceReturnsEarly == project = None \/ saveStatus # "success"

\* OutlinePage.handleAdvancePhase up to its await
OutlineAdvance ==
  /\ OutlineShown
  /\ IF ~OutlineAdvanceRendered \/ OutlineAdvanceDisabled \/ OutlineAdvanceReturnsEarly
       THEN /\ last' = Attempt("advance", FALSE, projectPhase, OutlineSaveInFlight,
                               None, None, ~OutlineUnsaved)
            /\ UNCHANGED <<backendVars, pageVars, outlineVars, writingVars, chatVars>>
       ELSE /\ Len(pending) < MaxPending
            /\ last' = Attempt("advance", TRUE, projectPhase, OutlineSaveInFlight,
                               None, None, ~OutlineUnsaved)
            /\ pending' = Append(pending, Request("advance", OutlineAdvanceTarget, projectPhase))
            /\ UNCHANGED <<storeVars, pageVars, outlineVars, writingVars, chatVars>>
  /\ UNCHANGED layoutVars

\* ======================================================= ChapterWritingPage
\* Chapter positions are zero-based, as in the code: chapter i is chapters[i + 1].

\* isReadOnly of ChapterWritingPage
WritingIsReadOnly == project = None \/ project[1] # CHAPER_WRITING

\* chapters[selectedChapterIndex] is defined (selectedChapter is truthy)
HasChapter(chs, sel) == sel # None /\ sel[1] >= 0 /\ sel[1] < Len(chs)
HasSelectedChapter == HasChapter(chapters, selectedChapterIndex)

\* variant: the frontier chapter itself counts as locked
IsLockedFromCursor(cur, index) == cur # None /\ index >= cur[1]

\* isLocked of getStatusIcon and of the chapter navigation
IsLocked(cur, index) == cur # None /\ index > cur[1]

\* isCurrentChapterLocked
IsCurrentChapterLocked ==
  /\ selectedChapterIndex # None
  /\ currentWritableIndex # None
  /\ selectedChapterIndex[1] > currentWritableIndex[1]

\* variant: the generate Button ignores which chapter is selected
GenerateDisabledAnyChapter == isGenerating \/ isSaving \/ WritingIsReadOnly

\* disabled of the generate Button
GenerateDisabled ==
  \/ isGenerating
  \/ isSaving
  \/ WritingIsReadOnly
  \/ selectedChapterIndex # currentWritableIndex

\* variant: the save button stays enabled during a generation
SaveDisabledWhileSaving ==
  isSaving \/ WritingIsReadOnly \/ IsCurrentChapterLocked

\* disabled of the save Button
SaveDisabled ==
  isGenerating \/ isSaving \/ WritingIsReadOnly \/ IsCurrentChapterLocked

\* disabled of the Textarea
TextareaDisabled == isGenerating \/ WritingIsReadOnly \/ IsCurrentChapterLocked

\* the early returns of handleGenerate and handleSave
HandleGenerateReturnsEarly == selectedChapterIndex = None \/ ~HasSelectedChapter
HandleSaveReturnsEarly == selectedChapterIndex = None \/ isSaving

\* what setError stores on this page (the page never renders it)
WritingError == Some("writing")

\* status of a ChapterWritingInfo
StatusOf(content) == IF content # <<>> THEN "draft" ELSE "empty"
ChapterInfo(content) == [content |-> content, status |-> StatusOf(content)]

\* the effect on [selectedChapterIndex, chapters]: selected?.content || ""
SyncContent(chs, sel) == IF HasChapter(chs, sel) THEN chs[sel[1] + 1].content ELSE <<>>

\* what fetchChapters builds from the backend's answers
FetchedChapters == [k \in 1..Len(serverChapters) |-> ChapterInfo(serverChapters[k])]

\* texts the user can type into the chapter textarea
EditContents == {<<"u">>}
\* payloads of a generation stream
WritingChunks ==
  {Chunk("content_chunk", <<"a">>), Chunk("thinking", <<"a">>), Chunk("end", <<>>)}
FlowWritingChunks == {Chunk("content_chunk", <<"a">>)}

\* the mount effect runs again when fetchChapters' identity changes, that
\* is when currentWritableIndex takes a new value cur
MountEffectFetches(cur) == chapterFetches \cup {ChapterFetch(TRUE, cur, FALSE)}

\* onClick of chapter i's navigation Button
SelectChapter(i) ==
  /\ screen = "chapter-writing"
  /\ i \in 0..(Len(chapters) - 1)
  /\ IF IsLocked(currentWritableIndex, i)
       THEN /\ last' = Gesture("select", FALSE, Some(i))
            /\ UNCHANGED <<selectedChapterIndex, currentContent>>
       ELSE /\ last' = Gesture("select", TRUE, Some(i))
            /\ selectedChapterIndex' = Some(i)
            /\ currentContent' =
                 IF selectedChapterIndex = Some(i)
                   THEN currentContent
                   ELSE SyncContent(chapters, Some(i))
  /\ UNCHANGED <<backendVars, pageVars, chatVars, outlineVars,
                 chapters, currentWritableIndex, isGenerating, isSaving, writingLogs,
                 gens, chapterFetches, cursorAsked, cursorReplies>>
  /\ UNCHANGED layoutVars

\* onChange of the Textarea
EditChapter(v) ==
  /\ screen = "chapter-writing"
  /\ HasSelectedChapter
  /\ v # currentContent
  /\ IF TextareaDisabled
       THEN /\ last' = Gesture("edit", FALSE, None)
            /\ UNCHANGED currentContent
       ELSE /\ last' = Gesture("edit", TRUE, None)
            /\ currentContent' = v
  /\ UNCHANGED <<backendVars, pageVars, chatVars, outlineVars,
                 chapters, selectedChapterIndex, currentWritableIndex, isGenerating,
                 isSaving, writingLogs, gens, chapterFetches, cursorAsked, cursorReplies>>
  /\ UNCHANGED layoutVars

\* handleGenerate up to its first await (POST .../write/start is issued)
Generate(maxWrites) ==
  /\ screen = "chapter-writing"
  /\ IF ~HasSelectedChapter \/ GenerateDisabled \/ HandleGenerateReturnsEarly
       THEN /\ last' = Gesture("generate", FALSE, None)
            /\ UNCHANGED <<error, currentContent, isGenerating, writingLogs, gens,
                           writes>>
       ELSE /\ Len(gens) < MaxGens
            /\ writes < maxWrites
            /\ writes' = writes + 1
            /\ last' = Gesture("generate", TRUE, None)
            /\ isGenerating' = TRUE
            /\ currentContent' = <<>>
            /\ writingLogs' = <<>>
            /\ error' = None
            /\ gens' = Append(gens, [idx |-> selectedChapterIndex[1], pc |-> "start",
                                      status |-> None, received |-> <<>>])
  /\ UNCHANGED <<serverPhase, serverOutline, serverChapters, serverCursor, serverJob,
                 pending, screen, project, projectFetch, outlineVars, chatVars,
                 chapters, selectedChapterIndex, currentWritableIndex, isSaving,
                 chapterFetches, cursorAsked, cursorReplies>>
  /\ UNCHANGED layoutVars

\* the finally block of handleGenerate: setIsGenerating(false), then
\* await fetchChapters(), then fetchWritableIndex()
GenerateFinally(i) ==
  /\ isGenerating' = FALSE
  /\ gens' = RemoveAt(gens, i)
  /\ chapterFetches' = chapterFetches \cup {ChapterFetch(FALSE, None, TRUE)}

\* HTTP status codes the start call can answer with
ACCEPTED == 202
StartStatuses == {200, ACCEPTED, 500}
\* variant: any status of the 2xx class passes, as response.ok would
StatusPassesIfOk(st) == st \in 200..299
\* the test of handleGenerate on the start call's answer
StatusPasses(st) == st = ACCEPTED

\* the start call is answered with status st: await fetch(...) returns
GenerateStartResponse(i, st) ==
  /\ screen = "chapter-writing"
  /\ i \in 1..Len(gens)
  /\ gens[i].pc = "start"
  /\ gens' = SetAt(gens, i, [gens[i] EXCEPT !.pc = "answered", !.status = Some(st)])
  /\ serverJob' = IF st = ACCEPTED THEN Some(gens[i].idx) ELSE serverJob
  /\ UNCHANGED <<serverPhase, serverOutline, serverChapters, serverCursor, writes,
                 pending,
                 last, pageVars, chatVars, outlineVars,
                 chapters, selectedChapterIndex, currentWritableIndex, currentContent,
                 isGenerating, isSaving, writingLogs, chapterFetches, cursorAsked,
                 cursorReplies>>
  /\ UNCHANGED layoutVars

\* if (startResponse.status !== 202) throw ...: catch, finally; otherwise
\* the progress stream is requested
GenerateStatusCheck(i) ==
  /\ screen = "chapter-writing"
  /\ i \in 1..Len(gens)
  /\ gens[i].pc = "answered"
  /\ IF StatusPasses(gens[i].status[1])
       THEN /\ gens' = SetAt(gens, i, [gens[i] EXCEPT !.pc = "connect"])
            /\ UNCHANGED <<error, isGenerating, chapterFetches>>
       ELSE /\ error' = WritingError
            /\ GenerateFinally(i)
  /\ UNCHANGED <<backendVars, last, screen, project, projectFetch, chatVars,
                 outlineVars, chapters, selectedChapterIndex, currentWritableIndex,
                 currentContent, isSaving, writingLogs, cursorAsked, cursorReplies>>
  /\ UNCHANGED layoutVars

\* the start call answers 202: the progress stream is requested
GenerateAccepted(i) ==
  /\ screen = "chapter-writing"
  /\ i \in 1..Len(gens)
  /\ gens[i].pc = "start"
  /\ gens' = SetAt(gens, i, [gens[i] EXCEPT !.pc = "connect",
                                             !.status = Some(ACCEPTED)])
  /\ serverJob' = Some(gens[i].idx)
  /\ UNCHANGED <<serverPhase, serverOutline, serverChapters, serverCursor, writes,
                 pending,
                 last, pageVars, chatVars, outlineVars,
                 chapters, selectedChapterIndex, currentWritableIndex, currentContent,
                 isGenerating, isSaving, writingLogs, chapterFetches, cursorAsked,
                 cursorReplies>>
  /\ UNCHANGED layoutVars

\* the start call answers anything else, or fails: throw, catch, finally
GenerateRefused(i) ==
  /\ screen = "chapter-writing"
  /\ i \in 1..Len(gens)
  /\ gens[i].pc = "start"
  /\ error' = WritingError
  /\ GenerateFinally(i)
  /\ UNCHANGED <<backendVars, last, screen, project, projectFetch, chatVars,
                 outlineVars, chapters, selectedChapterIndex, currentWritableIndex,
                 currentContent, isSaving, writingLogs, cursorAsked, cursorReplies>>
  /\ UNCHANGED layoutVars

\* GET .../write/stream answers ok with a body: the for-await loop starts
GenerateStreamOpen(i) ==
  /\ screen = "chapter-writing"
  /\ i \in 1..Len(gens)
  /\ gens[i].pc = "connect"
  /\ gens' = SetAt(gens, i, [gens[i] EXCEPT !.pc = "stream"])
  /\ UNCHANGED <<backendVars, last, pageVars, chatVars, outlineVars,
                 chapters, selectedChapterIndex, currentWritableIndex, currentContent,
                 isGenerating, isSaving, writingLogs, chapterFetches, cursorAsked,
                 cursorReplies>>
  /\ UNCHANGED layoutVars

\* the stream cannot be opened, or a read of it fails: throw, catch, finally
GenerateStreamFail(i) ==
  /\ screen = "chapter-writing"
  /\ i \in 1..Len(gens)
  /\ gens[i].pc \in {"connect", "stream"}
  /\ error' = WritingError
  /\ GenerateFinally(i)
  /\ UNCHANGED <<backendVars, last, screen, project, projectFetch, chatVars,
                 outlineVars, chapters, selectedChapterIndex, currentWritableIndex,
                 currentContent, isSaving, writingLogs, cursorAsked, cursorReplies>>
  /\ UNCHANGED layoutVars

\* a WritingLog entry: { id: `log-...`, ...event }
WritingLog(logs, t, c) ==
  [id |-> MsgId("log", t, Len(logs)), type |-> c.type, data |-> c.data]

\* the switch of handleGenerate on one payload: the live buffer
WritingApplyContent(content, c) ==
  IF c.json /\ c.type = "content_chunk" THEN content \o c.data ELSE content
\* variant: every payload without a case of its own is logged
WritingApplyLogsByDefault(logs, t, c) ==
  IF c.json /\ c.type \notin {"content_chunk", "end"}
    THEN Append(logs, WritingLog(logs, t, c))
    ELSE logs
\* ... and the log list
WritingApplyLogs(logs, t, c) ==
  IF c.json /\ c.type \in {"thinking", "tool_result", "error"}
    THEN Append(logs, WritingLog(logs, t, c))
    ELSE logs

\* one iteration of the for-await loop of handleGenerate on payload c
GenerateStreamEvent(i, c, maxEvents) ==
  /\ screen = "chapter-writing"
  /\ i \in 1..Len(gens)
  /\ gens[i].pc = "stream"
  /\ evUsed < maxEvents
  /\ evUsed' = evUsed + 1
  /\ currentContent' = WritingApplyContent(currentContent, c)
  /\ writingLogs' = WritingApplyLogs(writingLogs, now, c)
  /\ gens' = SetAt(gens, i, [gens[i] EXCEPT !.received = Append(@, c)])
  /\ UNCHANGED <<backendVars, last, pageVars, outlineVars,
                 messages, input, isLoading, turns, now,
                 chapters, selectedChapterIndex, currentWritableIndex,
                 isGenerating, isSaving, chapterFetches, cursorAsked, cursorReplies>>
  /\ UNCHANGED layoutVars

\* the stream signals end-of-data: the loop exits, finally runs
GenerateStreamDone(i) ==
  /\ screen = "chapter-writing"
  /\ i \in 1..Len(gens)
  /\ gens[i].pc = "stream"
  /\ GenerateFinally(i)
  /\ UNCHANGED <<backendVars, last, pageVars, chatVars, outlineVars,
                 chapters, selectedChapterIndex, currentWritableIndex,
                 currentContent, isSaving, writingLogs, cursorAsked, cursorReplies>>
  /\ UNCHANGED layoutVars

\* handleSave up to its await (PUT .../chapters/:index is issued)
Save(maxWrites) ==
  /\ screen = "chapter-writing"
  /\ IF ~HasSelectedChapter \/ SaveDisabled \/ HandleSaveReturnsEarly
       THEN /\ last' = Gesture("save", FALSE, None)
            /\ UNCHANGED <<error, isSaving, pending, writes>>
       ELSE /\ Len(pending) < MaxPending
            /\ writes < maxWrites
            /\ writes' = writes + 1
            /\ last' = Gesture("save", TRUE, None)
            /\ isSaving' = TRUE
            /\ error' = None
            /\ pending' = Append(pending,
                 Request("chapter",
                         [idx |-> selectedChapterIndex[1], content |-> currentContent,
                          cur |-> currentWritableIndex],
                         project))
  /\ UNCHANGED <<serverPhase, serverOutline, serverChapters, serverCursor, serverJob,
                 screen, project, projectFetch, outlineVars, chatVars,
                 chapters, selectedChapterIndex, currentWritableIndex, currentContent,
                 isGenerating, writingLogs, gens, chapterFetches, cursorAsked, cursorReplies>>
  /\ UNCHANGED layoutVars

\* setChapters of handleSave
SavedChapters(prev, idx, content) ==
  [k \in 1..Len(prev) |-> IF k - 1 = idx THEN ChapterInfo(content) ELSE prev[k]]

\* a fetchChapters call of ChapterWritingPage completes
WritingChaptersOk(f) ==
  /\ screen = "chapter-writing"
  /\ f \in chapterFetches
  /\ chapterFetches' = chapterFetches \ {f}
  /\ chapters' = FetchedChapters
  /\ selectedChapterIndex' =
       IF f.selectFirst /\ Len(FetchedChapters) > 0
         THEN (IF f.cur # None THEN f.cur ELSE Some(0))
         ELSE selectedChapterIndex
  /\ currentContent' = SyncContent(chapters', selectedChapterIndex')
  /\ cursorAsked' = (cursorAsked \/ f.thenCursor)
  /\ UNCHANGED cursorReplies
  /\ UNCHANGED <<backendVars, last, pageVars, chatVars, outlineVars,
                 currentWritableIndex, isGenerating, isSaving, writingLogs, gens>>
  /\ UNCHANGED layoutVars

\* GET .../chapters fails: setError; handleGenerate's finally goes on
WritingChaptersFail(f) ==
  /\ screen = "chapter-writing"
  /\ f \in chapterFetches
  /\ chapterFetches' = chapterFetches \ {f}
  /\ error' = WritingError
  /\ cursorAsked' = (cursorAsked \/ f.thenCursor)
  /\ UNCHANGED cursorReplies
  /\ UNCHANGED <<backendVars, last, screen, project, projectFetch, chatVars,
                 outlineVars, chapters, selectedChapterIndex, currentWritableIndex,
                 currentContent, isGenerating, isSaving, writingLogs, gens>>
  /\ UNCHANGED layoutVars

\* fetchWritableIndex fails: setError
\* the backend reads the cursor for GET .../write/current_chapter_index; the
\* reply travels back on its own
CursorRead ==
  /\ screen = "chapter-writing"
  /\ cursorAsked
  /\ cursorAsked' = FALSE
  /\ cursorReplies' = cursorReplies \cup {serverCursor}
  /\ UNCHANGED <<backendVars, last, pageVars, chatVars, outlineVars,
                 chapters, selectedChapterIndex, currentWritableIndex, currentContent,
                 isGenerating, isSaving, writingLogs, gens, chapterFetches>>
  /\ UNCHANGED layoutVars

\* a reply reaches fetchWritableIndex: setCurrentWritableIndex(data); a new
\* value gives fetchChapters a new identity and the mount effect runs again
CursorReply(v) ==
  /\ screen = "chapter-writing"
  /\ v \in cursorReplies
  /\ cursorReplies' = cursorReplies \ {v}
  /\ currentWritableIndex' = Some(v)
  /\ IF currentWritableIndex = Some(v)
       THEN UNCHANGED <<projectFetch, chapterFetches, cursorAsked>>
       ELSE /\ projectFetch' = "pending"
            /\ cursorAsked' = TRUE
            /\ chapterFetches' = MountEffectFetches(Some(v))
  /\ UNCHANGED <<backendVars, last, screen, project, error, chatVars, outlineVars,
                 chapters, selectedChapterIndex, currentContent,
                 isGenerating, isSaving, writingLogs, gens>>
  /\ UNCHANGED layoutVars

CursorFail ==
  /\ cursorAsked
  /\ cursorAsked' = FALSE
  /\ UNCHANGED cursorReplies
  /\ error' = WritingError
  /\ UNCHANGED <<backendVars, last, screen, project, projectFetch, chatVars,
                 outlineVars, chapters, selectedChapterIndex, currentWritableIndex,
                 currentContent, isGenerating, isSaving, writingLogs, gens,
                 chapterFetches>>
  /\ UNCHANGED layoutVars

\* fetchWritableIndex receives the cursor: setCurrentWritableIndex(data); a
\* new value re-runs the mount effect (all three fetches)
FetchWritableIndexOk ==
  /\ screen = "chapter-writing"
  /\ cursorAsked
  /\ currentWritableIndex' = Some(serverCursor)
  /\ IF currentWritableIndex = Some(serverCursor)
       THEN /\ cursorAsked' = FALSE
            /\ UNCHANGED <<projectFetch, chapterFetches>>
       ELSE /\ projectFetch' = "pending"
            /\ cursorAsked' = TRUE
            /\ chapterFetches' = MountEffectFetches(Some(serverCursor))
  /\ UNCHANGED <<backendVars, last, screen, project, error, chatVars, outlineVars,
                 chapters, selectedChapterIndex, currentContent,
                 isGenerating, isSaving, writingLogs, gens, cursorReplies>>
  /\ UNCHANGED layoutVars

\* ChapteringPage: a fetchChapters call completes, setChapters(data.chapters)
ChapteringChaptersOk(f) ==
  /\ screen = "chaptering"
  /\ f \in chapterFetches
  /\ chapterFetches' = chapterFetches \ {f}
  /\ chapters' = [k \in 1..Len(serverChapters) |-> ChapterInfo(<<>>)]
  /\ UNCHANGED <<backendVars, last, pageVars, chatVars, outlineVars,
                 selectedChapterIndex, currentWritableIndex, currentContent,
                 isGenerating, isSaving, writingLogs, gens, cursorAsked, cursorReplies>>
  /\ UNCHANGED layoutVars

\* ChapteringPage: GET .../chapters fails, console.error only
ChapteringChaptersFail(f) ==
  /\ screen = "chaptering"
  /\ f \in chapterFetches
  /\ chapterFetches' = chapterFetches \ {f}
  /\ UNCHANGED <<backendVars, last, pageVars, chatVars, outlineVars, writingRest>>
  /\ UNCHANGED layoutVars

\* ============================================================== page mounting
\* useState initial values of the chat pages
ChatInit ==
  /\ messages = <<>>
  /\ input = <<>>
  /\ isLoading = FALSE
  /\ turns = <<>>
  /\ now = 1
  /\ evUsed = 0

ChatReset ==
  /\ messages' = <<>>
  /\ input' = <<>>
  /\ isLoading' = FALSE
  /\ turns' = <<>>
  /\ now' = 1
  /\ evUsed' = 0

\* useState initial values of OutlinePage; the auto-save effect's first run
\* (isInitialMount) arms no timer
OutlineInit ==
  /\ outline = None
  /\ projectPhase = None
  /\ yamlText = ""
  /\ outlineIsLoading = TRUE
  /\ saveStatus = "idle"
  /\ debounceTimer = None

OutlineReset ==
  /\ outline' = None
  /\ projectPhase' = None
  /\ yamlText' = ""
  /\ outlineIsLoading' = TRUE
  /\ saveStatus' = "idle"
  /\ debounceTimer' = None

\* the fetchChapters call of a page's mount effect
MountChapterFetches(s) ==
  CASE s = "chapter-writing" -> {ChapterFetch(TRUE, None, FALSE)}
    [] s = "chaptering" -> {PlainChapterFetch}
    [] OTHER -> {}

\* useState initial values of ChapterWritingPage and its mount effect
WritingInit(s) ==
  /\ chapters = <<>>
  /\ selectedChapterIndex = None
  /\ currentWritableIndex = None
  /\ currentContent = <<>>
  /\ isGenerating = FALSE
  /\ isSaving = FALSE
  /\ writingLogs = <<>>
  /\ gens = <<>>
  /\ chapterFetches = MountChapterFetches(s)
  /\ cursorAsked = (s = "chapter-writing")
  /\ cursorReplies = {}

WritingReset(s) ==
  /\ chapters' = <<>>
  /\ selectedChapterIndex' = None
  /\ currentWritableIndex' = None
  /\ currentContent' = <<>>
  /\ isGenerating' = FALSE
  /\ isSaving' = FALSE
  /\ writingLogs' = <<>>
  /\ gens' = <<>>
  /\ chapterFetches' = MountChapterFetches(s)
  /\ cursorAsked' = (s = "chapter-writing")
  /\ cursorReplies' = {}

\* the page of route s mounts with fresh state; its mount effect fetches
Mount(s) ==
  /\ screen' = s
  /\ project' = None
  /\ error' = None
  /\ projectFetch' = "pending"
  /\ last' = NoAttempt
  /\ ChatReset
  /\ OutlineReset
  /\ WritingReset(s)

\* the requests q after the component that issued them has unmounted
Unmounted(q) == [k \in 1..Len(q) |-> [q[k] EXCEPT !.mounted = FALSE]]
\* ... and after the document has been reloaded
Reloaded(q) ==
  [k \in 1..Len(q) |-> [q[k] EXCEPT !.mounted = FALSE, !.alive = FALSE]]

\* the route of the screen that belongs to a phase
ScreenOfPhase(p) == CHOOSE s \in Screens : PhaseOfScreen(s) = p

\* the user opens route s: in-app navigation (a NavLink), or a document load
Navigate(s, reload) ==
  /\ s \in Screens
  /\ Mount(s)
  /\ pending' = IF reload THEN Reloaded(pending) ELSE Unmounted(pending)
  /\ UNCHANGED storeVars
  /\ UNCHANGED layoutVars

\* fetchProjectData: setProject(projectData)
FetchProjectOk ==
  /\ screen # "outline"
  /\ projectFetch = "pending"
  /\ projectFetch' = "done"
  /\ project' = Some(serverPhase)
  /\ UNCHANGED <<backendVars, last, screen, error, chatVars, outlineVars, writingVars>>
  /\ UNCHANGED layoutVars

\* fetchProjectData: the GET fails, setError(e.message)
FetchProjectFail ==
  /\ screen # "outline"
  /\ projectFetch = "pending"
  /\ projectFetch' = "done"
  /\ error' = Some("fetch")
  /\ UNCHANGED <<backendVars, last, screen, project, chatVars, outlineVars, writingVars>>
  /\ UNCHANGED layoutVars

\* =================================================================== backend
\* The backend serves the client's PUT requests in the order they were
\* issued; serving and the client's receipt of the answer are one step.

\* PUT /api/projects/:id answers ok: the phase is persisted; the handler,
\* if its context still exists, navigates to the next page and reloads
ServeAdvanceOk ==
  /\ pending # <<>>
  /\ Head(pending).kind = "advance"
  /\ serverPhase' = Head(pending).val
  /\ IF Head(pending).alive
       THEN /\ Mount(ScreenOfPhase(Head(pending).val))
            /\ pending' = Reloaded(Tail(pending))
       ELSE /\ pending' = Tail(pending)
            /\ UNCHANGED <<last, pageVars, chatVars, outlineVars, writingVars>>
  /\ UNCHANGED <<serverOutline, serverChapters, serverCursor, serverJob, writes>>
  /\ UNCHANGED layoutVars

\* PUT /api/projects/:id fails or answers not ok: setError(err.message)
\* variant: a catch block that only logs
ServeAdvanceFailLogged ==
  /\ pending # <<>>
  /\ Head(pending).kind = "advance"
  /\ pending' = Tail(pending)
  /\ UNCHANGED <<storeVars, last, pageVars, chatVars, outlineVars, writingVars>>
  /\ UNCHANGED layoutVars

ServeAdvanceFail ==
  /\ pending # <<>>
  /\ Head(pending).kind = "advance"
  /\ pending' = Tail(pending)
  /\ error' = IF Head(pending).mounted THEN Some("advance") ELSE error
  /\ UNCHANGED <<storeVars, last, screen, project, projectFetch,
                 chatVars, outlineVars, writingVars>>
  /\ UNCHANGED layoutVars

\* PUT .../outline answers ok: setOutline(parsedData), setSaveStatus("success")
ServeOutlineOk ==
  /\ pending # <<>>
  /\ Head(pending).kind = "outline"
  /\ pending' = Tail(pending)
  /\ serverOutline' = Head(pending).val
  /\ IF Head(pending).mounted
       THEN /\ outline' = Some(Head(pending).val)
            /\ saveStatus' = "success"
       ELSE UNCHANGED <<outline, saveStatus>>
  /\ UNCHANGED <<serverPhase, serverChapters, serverCursor, serverJob, writes,
                 last, pageVars, chatVars, writingVars,
                 projectPhase, yamlText, outlineIsLoading, debounceTimer>>
  /\ UNCHANGED layoutVars

\* PUT .../outline fails or answers not ok: setSaveStatus("error")
ServeOutlineFail ==
  /\ pending # <<>>
  /\ Head(pending).kind = "outline"
  /\ pending' = Tail(pending)
  /\ saveStatus' = IF Head(pending).mounted THEN "error" ELSE saveStatus
  /\ UNCHANGED <<storeVars, last, pageVars, chatVars, writingVars,
                 outline, projectPhase, yamlText, outlineIsLoading, debounceTimer>>
  /\ UNCHANGED layoutVars

\* PUT .../chapters/:index answers ok: setChapters, then finally:
\* setIsSaving(false) and fetchWritableIndex()
ServeChapterOk ==
  /\ pending # <<>>
  /\ Head(pending).kind = "chapter"
  /\ Head(pending).val.idx < Len(serverChapters)
  /\ pending' = Tail(pending)
  /\ serverChapters' =
       [serverChapters EXCEPT ![Head(pending).val.idx + 1] = Head(pending).val.content]
  /\ IF Head(pending).mounted
       THEN /\ chapters' = SavedChapters(chapters, Head(pending).val.idx,
                                         Head(pending).val.content)
            /\ currentContent' = SyncContent(chapters', selectedChapterIndex)
            /\ isSaving' = FALSE
            /\ cursorAsked' = TRUE
            /\ UNCHANGED cursorReplies
       ELSE UNCHANGED <<chapters, currentContent, isSaving, cursorAsked, cursorReplies>>
  /\ UNCHANGED <<serverPhase, serverOutline, serverCursor, serverJob, writes,
                 last, pageVars, chatVars, outlineVars,
                 selectedChapterIndex, currentWritableIndex, isGenerating,
                 writingLogs, gens, chapterFetches>>
  /\ UNCHANGED layoutVars

\* PUT .../chapters/:index fails or answers not ok: setError, then finally
ServeChapterFail ==
  /\ pending # <<>>
  /\ Head(pending).kind = "chapter"
  /\ pending' = Tail(pending)
  /\ IF Head(pending).mounted
       THEN /\ error' = WritingError
            /\ isSaving' = FALSE
            /\ cursorAsked' = TRUE
            /\ UNCHANGED cursorReplies
       ELSE UNCHANGED <<error, isSaving, cursorAsked, cursorReplies>>
  /\ UNCHANGED <<storeVars, last, screen, project, projectFetch, chatVars, outlineVars,
                 chapters, selectedChapterIndex, currentWritableIndex, currentContent,
                 isGenerating, writingLogs, gens, chapterFetches>>
  /\ UNCHANGED layoutVars

\* text the writing agent produces for a chapter
GeneratedContent == <<"g">>

\* the writing agent finishes its chapter: the content is stored and, if it
\* was the frontier chapter, the cursor moves on
AgentCompletes ==
  /\ serverJob # None
  /\ serverJob[1] < Len(serverChapters)
  /\ serverJob' = None
  /\ serverChapters' = [serverChapters EXCEPT ![serverJob[1] + 1] = GeneratedContent]
  /\ serverCursor' =
       IF serverJob[1] = serverCursor THEN serverCursor + 1 ELSE serverCursor
  /\ UNCHANGED <<serverPhase, serverOutline, writes, pending, last, pageVars, chatVars,
                 outlineVars, writingVars>>
  /\ UNCHANGED layoutVars

\* ============================================================ ProjectLayout
\* The layout route /projects/:projectId renders the sidebar and, once the
\* project is active, the routed page.  A change of :projectId keeps the
\* component mounted and re-runs the effects that depend on projectId.

\* projects a workspace can be opened on: "p" is the project of the pages
\* above, "q" another project, which is in the chaptering phase
ProjectIds == {"p", "q"}
PhaseOfProject(id) == IF id = "p" THEN serverPhase ELSE CHAPERING

\* one run of the heartbeat effect: the project it was started for, whether
\* the activation call is still awaited, the state of the timer behind its
\* intervalId ("unset": setInterval not called), whether its cleanup has
\* run, and what the latest renewal logged (history)
EffectRun(id) ==
  [projectId |-> id, pc |-> "activating", interval |-> "unset",
   cleanedUp |-> FALSE, lastRenewal |-> "none"]

\* the cleanup function of the effect: if (intervalId) clearInterval(intervalId)
Cleanup(run) ==
  [run EXCEPT !.cleanedUp = TRUE,
              !.interval = IF @ = "running" THEN "cleared" ELSE @]

\* the run the mounted layout started last
CurrentRun == Len(heartbeatEffects)

\* the user opens another project in the same layout: cleanup of the
\* current run, then the heartbeat effect and the sidebar's effect run anew
LayoutSwitch(id) ==
  /\ layoutProject # None
  /\ id # layoutProject[1]
  /\ Len(heartbeatEffects) < MaxEffects
  /\ layoutProject' = Some(id)
  /\ heartbeatEffects' =
       Append(SetAt(heartbeatEffects, CurrentRun, Cleanup(heartbeatEffects[CurrentRun])),
              EffectRun(id))
  /\ sidebarFetches' = Append(sidebarFetches, id)
  /\ UNCHANGED <<appVars, isProjectActive, layoutError, renewals, ticks, sidebarProject>>

\* the user leaves the workspace (project list, closed tab): cleanup of the
\* current run, the component state is gone
LayoutUnmount ==
  /\ layoutProject # None
  /\ layoutProject' = None
  /\ heartbeatEffects' =
       SetAt(heartbeatEffects, CurrentRun, Cleanup(heartbeatEffects[CurrentRun]))
  /\ isProjectActive' = FALSE
  /\ layoutError' = None
  /\ sidebarProject' = None
  /\ UNCHANGED <<appVars, renewals, ticks, sidebarFetches>>

\* the activation call of run i answers ok: setIsProjectActive(true) and
\* setInterval
ActivateOk(i) ==
  /\ i \in 1..Len(heartbeatEffects)
  /\ heartbeatEffects[i].pc = "activating"
  /\ heartbeatEffects' =
       SetAt(heartbeatEffects, i,
             [heartbeatEffects[i] EXCEPT !.pc = "settled", !.interval = "running"])
  /\ isProjectActive' = IF layoutProject # None THEN TRUE ELSE isProjectActive
  /\ UNCHANGED <<appVars, layoutProject, layoutError, renewals, ticks,
                 sidebarProject, sidebarFetches>>

\* the activation call of run i fails or answers not ok: the catch block
ActivateFail(i) ==
  /\ i \in 1..Len(heartbeatEffects)
  /\ heartbeatEffects[i].pc = "activating"
  /\ heartbeatEffects' =
       SetAt(heartbeatEffects, i, [heartbeatEffects[i] EXCEPT !.pc = "settled"])
  /\ layoutError' = IF layoutProject # None THEN Some("activate") ELSE layoutError
  /\ UNCHANGED <<appVars, layoutProject, isProjectActive, renewals, ticks,
                 sidebarProject, sidebarFetches>>

\* the interval callback of run i: one renewal call
HeartbeatTick(i) ==
  /\ i \in 1..Len(heartbeatEffects)
  /\ heartbeatEffects[i].interval = "running"
  /\ ticks < MaxTicks
  /\ ticks' = ticks + 1
  /\ renewals' = Append(renewals, i)
  /\ UNCHANGED <<appVars, layoutProject, isProjectActive, layoutError,
                 heartbeatEffects, sidebarProject, sidebarFetches>>

\* a renewal call resolves: console.log
RenewalOk(k) ==
  /\ k \in 1..Len(renewals)
  /\ renewals' = RemoveAt(renewals, k)
  /\ heartbeatEffects' =
       SetAt(heartbeatEffects, renewals[k],
             [heartbeatEffects[renewals[k]] EXCEPT !.lastRenewal = "ok"])
  /\ UNCHANGED <<appVars, layoutProject, isProjectActive, layoutError, ticks,
                 sidebarProject, sidebarFetches>>

\* a renewal call rejects: console.error and return from the callback
RenewalFail(k) ==
  /\ k \in 1..Len(renewals)
  /\ renewals' = RemoveAt(renewals, k)
  /\ heartbeatEffects' =
       SetAt(heartbeatEffects, renewals[k],
             [heartbeatEffects[renewals[k]] EXCEPT !.lastRenewal = "failed"])
  /\ UNCHANGED <<appVars, layoutProject, isProjectActive, layoutError, ticks,
                 sidebarProject, sidebarFetches>>

\* ----------------------------------------------------------- ProjectSidebar
\* fetchProject of the sidebar answers ok: setProject(data)
SidebarFetchOk(k) ==
  /\ k \in 1..Len(sidebarFetches)
  /\ sidebarFetches' = RemoveAt(sidebarFetches, k)
  /\ sidebarProject' =
       IF layoutProject # None
         THEN Some(PhaseOfProject(sidebarFetches[k]))
         ELSE sidebarProject
  /\ UNCHANGED <<appVars, layoutProject, isProjectActive, layoutError,
                 heartbeatEffects, renewals, ticks>>

\* fetchProject of the sidebar fails or answers not ok: console.error
SidebarFetchFail(k) ==
  /\ k \in 1..Len(sidebarFetches)
  /\ sidebarFetches' = RemoveAt(sidebarFetches, k)
  /\ UNCHANGED <<appVars, layoutProject, isProjectActive, layoutError,
                 heartbeatEffects, renewals, ticks, sidebarProject>>

\* isPhaseDisabled of ProjectSidebar
IsPhaseDisabled(phase) ==
  \/ sidebarProject = None
  \/ sidebarProject[1] < phase

\* className "pointer-events-none" of the NavLink to screen s
LinkDisabled(s) == IsPhaseDisabled(PhaseOfScreen(s))

\* disabled of the SidebarMenuButton inside the NavLink to screen s
ButtonDisabled(s) ==
  IsPhaseDisabled(IF s = "chapter-writing" THEN CHAPERING ELSE PhaseOfScreen(s))

\* the layout right after mounting on project id: both effects have issued
\* their first call
LayoutMounted(id) ==
  /\ layoutProject = Some(id)
  /\ isProjectActive = FALSE
  /\ layoutError = None
  /\ heartbeatEffects = <<EffectRun(id)>>
  /\ renewals = <<>>
  /\ ticks = 0
  /\ sidebarProject = None
  /\ sidebarFetches = <<id>>

\* the layout while it renders the routed page: the project is active and
\* the heartbeat timer runs
LayoutReady ==
  /\ layoutProject = Some("p")
  /\ isProjectActive = TRUE
  /\ layoutError = None
  /\ heartbeatEffects =
       <<[EffectRun("p") EXCEPT !.pc = "settled", !.interval = "running"]>>
  /\ renewals = <<>>
  /\ ticks = 0
  /\ sidebarProject = None
  /\ sidebarFetches = <<"p">>

\* cursors of the projects the page is opened on: nothing written yet, or
\* chapters 0 and 1 written
StartCursors == {0, NChapters - 2}

\* chapter contents of a project whose cursor is cur
ChaptersAt(cur) ==
  [k \in 1..NChapters |-> IF k - 1 < cur THEN GeneratedContent ELSE <<>>]

\* the backend and the routed page after construction
AppInit ==
  /\ serverPhase \in Phases
  /\ serverOutline = OutlineValue("A")
  /\ serverCursor \in (IF serverPhase = CHAPER_WRITING THEN StartCursors ELSE {0})
  /\ serverChapters =
       IF serverPhase >= CHAPERING THEN ChaptersAt(serverCursor) ELSE <<>>
  /\ serverJob = None
  /\ writes = 0
  /\ pending = <<>>
  /\ last = NoAttempt
  /\ screen \in Screens
  /\ project = None
  /\ error = None
  /\ projectFetch = "pending"
  /\ ChatInit
  /\ OutlineInit
  /\ WritingInit(screen)

Init ==
  /\ AppInit
  /\ LayoutReady

\* the actions of the chapter-writing page, with a bound on stream payloads
NextWriting(chunks, maxEvents, maxWrites) ==
  \/ \E i \in 0..(NChapters - 1) : SelectChapter(i)
  \/ \E v \in EditContents : EditChapter(v)
  \/ Generate(maxWrites)
  \/ \E i \in 1..Len(gens) : GenerateAccepted(i)
  \/ \E i \in 1..Len(gens) : GenerateRefused(i)
  \/ \E i \in 1..Len(gens) : GenerateStreamOpen(i)
  \/ \E i \in 1..Len(gens) : GenerateStreamFail(i)
  \/ \E i \in 1..Len(gens), c \in chunks : GenerateStreamEvent(i, c, maxEvents)
  \/ \E i \in 1..Len(gens) : GenerateStreamDone(i)
  \/ Save(maxWrites)
  \/ \E f \in chapterFetches : WritingChaptersOk(f)
  \/ \E f \in chapterFetches : WritingChaptersFail(f)
  \/ FetchWritableIndexOk
  \/ CursorFail
  \/ ServeChapterOk
  \/ ServeChapterFail
  \/ AgentCompletes

Next ==
  \/ \E s \in Screens, reload \in BOOLEAN : Navigate(s, reload)
  \/ FetchProjectOk
  \/ FetchProjectFail
  \/ \E v \in Inputs : ChatSetInput(v)
  \/ ChatSubmit(MaxFlowTurns)
  \/ \E i \in 1..Len(turns) : ChatResponseOk(i)
  \/ \E i \in 1..Len(turns) : ChatResponseFail(i)
  \/ \E i \in 1..Len(turns), c \in FlowChunks : ChatStreamEvent(i, c, MaxFlowEvents)
  \/ \E i \in 1..Len(turns) : ChatStreamDone(i)
  \/ \E i \in 1..Len(turns) : ChatStreamFail(i)
  \/ \E f \in chapterFetches : ChapteringChaptersOk(f)
  \/ \E f \in chapterFetches : ChapteringChaptersFail(f)
  \/ WorldSetupAdvance
  \/ ChapteringAdvance
  \/ OutlineFetchOk
  \/ OutlineFetchFail
  \/ \E v \in EditTexts : OutlineEdit(v)
  \/ HandleAutoSave
  \/ OutlineAdvance
  \/ ServeAdvanceOk
  \/ ServeAdvanceFail
  \/ ServeOutlineOk
  \/ ServeOutlineFail
  \/ NextWriting(FlowWritingChunks, MaxFlowEvents, MaxWrites)

Spec == Init /\ [][Next]_vars

\* ------------------------------------------------ the chat pages on their own
InitChat ==
  /\ Init
  /\ screen \in ChatScreens

NextChat ==
  \/ FetchProjectOk
  \/ FetchProjectFail
  \/ \E v \in Inputs : ChatSetInput(v)
  \/ ChatSubmit(MaxTurns)
  \/ \E i \in 1..Len(turns) : ChatResponseOk(i)
  \/ \E i \in 1..Len(turns) : ChatResponseFail(i)
  \/ \E i \in 1..Len(turns), c \in ChatChunks : ChatStreamEvent(i, c, MaxEvents)
  \/ \E i \in 1..Len(turns) : ChatStreamDone(i)
  \/ \E i \in 1..Len(turns) : ChatStreamFail(i)
  \/ \E f \in chapterFetches : ChapteringChaptersOk(f)
  \/ \E f \in chapterFetches : ChapteringChaptersFail(f)

SpecChat == InitChat /\ [][NextChat]_vars

\* ---------------------------------------- the chapter-writing page on its own
InitWriting ==
  /\ Init
  /\ screen = "chapter-writing"
  /\ serverPhase \in {CHAPERING, CHAPER_WRITING}

NextWritingPage ==
  \/ FetchProjectOk
  \/ FetchProjectFail
  \/ NextWriting(WritingChunks, MaxWriteEvents, MaxWrites)

SpecWriting == InitWriting /\ [][NextWritingPage]_vars

\* ------------------------------------------------- the grouped transcript view
\* isToolMessage of the useMemo callback
IsToolMessage(message) == message.type \in {"thinking", "tool_result"}

\* variant: the group keeps its first message only
ToolGroupOfFirst(currentToolGroup) ==
  [type |-> "tool_group", messages |-> <<currentToolGroup[1]>>,
   id |-> <<"group", currentToolGroup[1].id>>]

\* variant: the group holds its messages newest first
ToolGroupReversed(currentToolGroup) ==
  [type |-> "tool_group",
   messages |-> [k \in 1..Len(currentToolGroup) |->
                   currentToolGroup[Len(currentToolGroup) + 1 - k]],
   id |-> <<"group", currentToolGroup[1].id>>]

\* { type: "tool_group", messages: currentToolGroup, id: `group-${...}` }
ToolGroup(currentToolGroup) ==
  [type |-> "tool_group", messages |-> currentToolGroup,
   id |-> <<"group", currentToolGroup[1].id>>]

\* variant: every collected message becomes a group of its own
PushSingletons(groups, currentToolGroup) ==
  groups \o [k \in 1..Len(currentToolGroup) |-> ToolGroup(<<currentToolGroup[k]>>)]

\* if (currentToolGroup.length > 0) groups.push({...})
PushToolGroup(groups, currentToolGroup) ==
  IF Len(currentToolGroup) > 0
    THEN Append(groups, ToolGroup(currentToolGroup))
    ELSE groups

\* the for loop of the useMemo callback and the push behind it, from the
\* messages still to visit, the groups pushed and the group being collected
RECURSIVE GroupLoop(_, _, _)
GroupLoop(rest, groups, currentToolGroup) ==
  IF rest = <<>>
    THEN PushToolGroup(groups, currentToolGroup)
    ELSE IF IsToolMessage(Head(rest))
      THEN GroupLoop(Tail(rest), groups, Append(currentToolGroup, Head(rest)))
      ELSE GroupLoop(Tail(rest),
                     Append(PushToolGroup(groups, currentToolGroup), Head(rest)),
                     <<>>)

\* the useMemo callback
GroupedMessages(msgs) == GroupLoop(msgs, <<>>, <<>>)

\* const groupedMessages = useMemo(..., [messages])
groupedMessages == GroupedMessages(messages)

\* ------------------------------------- the grouped view of any message list
\* messages a list can hold at position n: a user message, an empty
\* assistant "final" message, a thinking and a tool_result message
MessagesAt(n) ==
  {UserMessage(n, <<"h", "i">>), AssistantPlaceholder(n),
   Msg(MsgId("log", n, 0), "assistant", <<"a">>, "thinking"),
   Msg(MsgId("log", n, 0), "assistant", <<"a">>, "tool_result")}

\* setMessages with a list one message longer, and the re-render
SetMessages(m) ==
  /\ screen \in ChatScreens
  /\ Len(messages) < MaxMessages
  /\ messages' = Append(messages, m)
  /\ UNCHANGED <<backendVars, last, pageVars, outlineVars, writingVars,
                 input, isLoading, turns, now, evUsed>>
  /\ UNCHANGED layoutVars

InitGroup ==
  /\ Init
  /\ screen = "world-setup"
  /\ serverPhase = WORLD_SETUP

NextGroup == \E m \in MessagesAt(Len(messages) + 1) : SetMessages(m)

SpecGroup == InitGroup /\ [][NextGroup]_vars

\* --------------------------------------------- one chat turn and its stream
\* a frame: the data field, its payload, a blank line
Frame(payload) == DataPrefix \o payload \o Delimiter
RECURSIVE WireOf(_)
WireOf(payloads) ==
  IF payloads = <<>> THEN <<>>
  ELSE Frame(Head(payloads)) \o WireOf(Tail(payloads))
\* payload texts: two JSON texts, a text that is no JSON, the empty text
PayloadTexts == {<<TokenHi>>, <<EndJson>>, <<"x">>, <<>>}
PayloadLists == UNION {[1..n -> PayloadTexts] : n \in 0..MaxFrames}
\* another field line of a frame
OtherField == <<"i", "d", ":", " ", "1">>
FrameFieldBefore(payload) ==
  OtherField \o <<"\n">> \o DataPrefix \o payload \o Delimiter
FrameFieldAfter(payload) ==
  DataPrefix \o payload \o <<"\n">> \o OtherField \o Delimiter
\* what can follow the last complete frame: nothing, or a frame cut short
Tails == {<<>>, DataPrefix \o <<TokenHi>>, DataPrefix \o <<TokenHi>> \o <<"\n">>}
\* response bodies of /chat/stream
Wires ==
  {WireOf(ps) \o tail : ps \in PayloadLists, tail \in Tails}
    \cup {FrameFieldBefore(<<TokenHi>>) \o Frame(<<EndJson>>),
          FrameFieldAfter(<<TokenHi>>) \o Frame(<<EndJson>>)}

InitDecoder ==
  /\ Init
  /\ screen = "world-setup"
  /\ serverPhase = WORLD_SETUP

NextDecoder ==
  \/ FetchProjectOk
  \/ ChatSetInput(<<"h", "i">>)
  \/ ChatSubmit(1)
  \/ \E i \in 1..Len(turns), w \in Wires : ChatResponseBody(i, w)
  \/ \E i \in 1..Len(turns), n \in 1..MaxRead : ChatStreamRead(i, n)
  \/ \E i \in 1..Len(turns) : ChatStreamDone(i)
  \/ \E i \in 1..Len(turns) : ChatStreamFail(i)

SpecDecoder == InitDecoder /\ [][NextDecoder]_vars

\* ------------------------------------------- the streams of the three screens
\* payloads a generation stream carries
StreamChunks ==
  {Chunk("content_chunk", <<"a">>), Chunk("thinking", <<"a">>),
   Chunk("error", <<"a">>), Chunk("end", <<>>), Chunk("ping", <<>>), BadChunk}

InitStream ==
  /\ Init
  /\ \/ screen \in ChatScreens
     \/ /\ screen = "chapter-writing"
        /\ serverPhase = CHAPER_WRITING

NextStream ==
  \/ NextChat
  \/ \E f \in chapterFetches : WritingChaptersOk(f)
  \/ FetchWritableIndexOk
  \/ \E i \in 0..(NChapters - 1) : SelectChapter(i)
  \/ Generate(MaxWrites)
  \/ \E i \in 1..Len(gens) : GenerateAccepted(i)
  \/ \E i \in 1..Len(gens) : GenerateStreamOpen(i)
  \/ \E i \in 1..Len(gens), c \in StreamChunks :
       GenerateStreamEvent(i, c, MaxStreamEvents)
  \/ \E i \in 1..Len(gens) : GenerateStreamDone(i)

SpecStream == InitStream /\ [][NextStream]_vars

\* ------------------------------------- the cursor of the chapter-writing page
\* the writing page with the cursor request and its reply as separate steps
InitCursor ==
  /\ Init
  /\ screen = "chapter-writing"
  /\ serverPhase = CHAPER_WRITING

NextCursor ==
  \/ FetchProjectOk
  \/ \E i \in 0..(NChapters - 1) : SelectChapter(i)
  \/ Generate(MaxWrites)
  \/ \E i \in 1..Len(gens) : GenerateAccepted(i)
  \/ \E i \in 1..Len(gens) : GenerateStreamOpen(i)
  \/ \E i \in 1..Len(gens), c \in FlowWritingChunks :
       GenerateStreamEvent(i, c, MaxWriteEvents)
  \/ \E i \in 1..Len(gens) : GenerateStreamDone(i)
  \/ \E f \in chapterFetches : WritingChaptersOk(f)
  \/ CursorRead
  \/ \E v \in cursorReplies : CursorReply(v)
  \/ CursorFail
  \/ AgentCompletes

SpecCursor == InitCursor /\ [][NextCursor]_vars

\* ------------------------------------------------ streams that come to an end
\* every request of a turn is answered, and every stream that was opened
\* signals end-of-data or fails
TurnAnswered == \E i \in 1..Len(turns) : ChatResponseOk(i) \/ ChatResponseFail(i)
TurnStreamEnds == \E i \in 1..Len(turns) : ChatStreamDone(i) \/ ChatStreamFail(i)
GenerationAnswered ==
  \E i \in 1..Len(gens) : GenerateAccepted(i) \/ GenerateStreamOpen(i)
GenerationStreamEnds == \E i \in 1..Len(gens) : GenerateStreamDone(i)

SpecStreamEnds ==
  /\ InitStream
  /\ [][NextStream]_vars
  /\ WF_vars(TurnAnswered)
  /\ WF_vars(TurnStreamEnds)
  /\ WF_vars(GenerationAnswered)
  /\ WF_vars(GenerationStreamEnds)

\* the response of the decoded turn arrives, its body is read piece by piece
\* until it is used up, and the reader then reports done or fails
BodyArrives == \E i \in 1..Len(turns), w \in Wires : ChatResponseBody(i, w)
BodyRead == \E i \in 1..Len(turns), n \in 1..MaxRead : ChatStreamRead(i, n)
SpecDecoderEnds ==
  /\ InitDecoder
  /\ [][NextDecoder]_vars
  /\ WF_vars(BodyArrives)
  /\ WF_vars(BodyRead)
  /\ WF_vars(TurnStreamEnds)

\* ------------------------------------------- the start call of a generation
\* the writing page with the answer to the start call and the test of its
\* status as separate steps
NextStart ==
  \/ FetchProjectOk
  \/ \E f \in chapterFetches : WritingChaptersOk(f)
  \/ FetchWritableIndexOk
  \/ \E i \in 0..(NChapters - 1) : SelectChapter(i)
  \/ Generate(MaxWrites)
  \/ \E i \in 1..Len(gens), st \in StartStatuses : GenerateStartResponse(i, st)
  \/ \E i \in 1..Len(gens) : GenerateStatusCheck(i)
  \/ \E i \in 1..Len(gens) : GenerateRefused(i)
  \/ \E i \in 1..Len(gens) : GenerateStreamOpen(i)
  \/ \E i \in 1..Len(gens) : GenerateStreamFail(i)
  \/ \E i \in 1..Len(gens), c \in WritingChunks :
       GenerateStreamEvent(i, c, MaxWriteEvents)
  \/ \E i \in 1..Len(gens) : GenerateStreamDone(i)

SpecStart == InitCursor /\ [][NextStart]_vars

\* --------------------------------------- generation and save, one after another
\* the writing page of a project in the chapter-writing phase, with room
\* for more than one generate or save request
NextBusy ==
  \/ FetchProjectOk
  \/ \E f \in chapterFetches : WritingChaptersOk(f)
  \/ FetchWritableIndexOk
  \/ \E i \in 0..(NChapters - 1) : SelectChapter(i)
  \/ Generate(MaxBusyWrites)
  \/ \E i \in 1..Len(gens) : GenerateAccepted(i)
  \/ \E i \in 1..Len(gens) : GenerateRefused(i)
  \/ \E i \in 1..Len(gens) : GenerateStreamOpen(i)
  \/ \E i \in 1..Len(gens) : GenerateStreamFail(i)
  \/ \E i \in 1..Len(gens), c \in FlowWritingChunks :
       GenerateStreamEvent(i, c, MaxWriteEvents)
  \/ \E i \in 1..Len(gens) : GenerateStreamDone(i)
  \/ Save(MaxBusyWrites)
  \/ ServeChapterOk
  \/ ServeChapterFail
  \/ AgentCompletes

SpecBusy == InitCursor /\ [][NextBusy]_vars

\* ------------------------------------------- the project layout on its own
\* the layout from its mount on; the routed page, which the layout renders
\* only once the project is active, is left as constructed
InitLayout ==
  /\ AppInit
  /\ screen = "outline"
  /\ LayoutMounted("p")

NextLayout ==
  \/ \E id \in ProjectIds : LayoutSwitch(id)
  \/ LayoutUnmount
  \/ \E i \in 1..Len(heartbeatEffects) : ActivateOk(i)
  \/ \E i \in 1..Len(heartbeatEffects) : ActivateFail(i)
  \/ \E i \in 1..Len(heartbeatEffects) : HeartbeatTick(i)
  \/ \E k \in 1..Len(renewals) : RenewalOk(k)
  \/ \E k \in 1..Len(renewals) : RenewalFail(k)
  \/ \E k \in 1..Len(sidebarFetches) : SidebarFetchOk(k)
  \/ \E k \in 1..Len(sidebarFetches) : SidebarFetchFail(k)

SpecLayout == InitLayout /\ [][NextLayout]_vars

\* ================================================================ properties
\* what a step does, read off the variables it changes
LocalPhase == IF screen = "outline" THEN projectPhase ELSE project
IssuesRequest(kind) ==
  /\ Len(pending') = Len(pending) + 1
  /\ pending'[Len(pending')].kind = kind
OpensTurn == Len(turns') > Len(turns)
StartsGeneration == Len(gens') > Len(gens)
Gestured(act) == last' # last /\ last'.act = act
ReceivesChunk ==
  /\ turns # <<>>
  /\ turns' # <<>>
  /\ Len(turns'[1].received) > Len(turns[1].received)
ReceivedChunk == turns'[1].received[Len(turns'[1].received)]

\* ---- C1
C1_OpenTurns ==
  /\ Len(turns) <= 1
  /\ (isLoading <=> turns # <<>>)
  /\ (last.act = "submit" /\ last.busy => ~last.ok)
C1_IgnoredStep ==
  isLoading =>
    /\ ~OpensTurn
    /\ UserCount(messages') = UserCount(messages)
    /\ (Gestured("submit") => messages' = messages /\ turns' = turns)
\* C1: on a chat page a submission made while isLoading is true changes
\* neither the transcript nor the set of open requests, so that at most one
\* turn is open in every reachable state (and isLoading says whether one is).
C1_SubmitWhileLoadingIgnored == [](C1_OpenTurns) /\ [][C1_IgnoredStep]_vars
C1_Witness ==
  /\ last.act = "submit"
  /\ ~last.ok
  /\ last.busy
  /\ isLoading
  /\ Len(turns) = 1
  /\ Len(messages) = 2

\* ---- C2
C2_ReadOnly ==
  CASE screen = "outline" -> OutlineIsReadOnly
    [] screen = "world-setup" -> WorldSetupIsReadOnly
    [] screen = "chaptering" -> ChapteringIsReadOnly
    [] OTHER -> WritingIsReadOnly
C2_Flag == C2_ReadOnly <=> LocalPhase # Some(PhaseOfScreen(screen))
C2_Attempt ==
  last.act \in {"submit", "edit"} /\ last.screen # "chapter-writing" /\ last.ok
    => last.phase = Some(PhaseOfScreen(last.screen))
C2_MutationStep ==
  \/ IssuesRequest("outline")
  \/ IssuesRequest("chapter")
  \/ OpensTurn
  \/ StartsGeneration
  \/ (Gestured("edit") /\ last'.ok)
\* C2: a page's phase gate is closed exactly when the local project phase
\* differs from the page's own phase, and every mutating step (an outline
\* edit or save request, a chat submission, a chapter edit, save or
\* generation) is taken only while the local phase equals the page's phase;
\* in any other phase the attempt issues no request.
C2_PhaseGate ==
  [](C2_Flag /\ C2_Attempt)
    /\ [][C2_MutationStep => LocalPhase = Some(PhaseOfScreen(screen))]_vars
C2_Witness ==
  /\ last.act = "edit"
  /\ ~last.ok
  /\ last.screen = "outline"
  /\ last.phase = Some(CHAPERING)
  /\ pending = <<>>

\* ---- C3
C3_Button ==
  HasSelectedChapter /\ ~GenerateDisabled =>
    currentWritableIndex # None /\ selectedChapterIndex = currentWritableIndex
C3_GenerateStep ==
  StartsGeneration =>
    /\ currentWritableIndex # None
    /\ selectedChapterIndex = currentWritableIndex
    /\ gens'[Len(gens')].idx = currentWritableIndex[1]
C3_StartStep ==
  serverJob' # serverJob /\ serverJob' # None =>
    \E i \in 1..Len(gens) : gens[i].idx = serverJob'[1]
\* C3: a generation is started only for the selected chapter, and only when
\* its index equals the page's cursor; never below it, never above it and
\* never while the cursor is null.
C3_GenerateOnlyAtCursor ==
  [](C3_Button) /\ [][C3_GenerateStep /\ C3_StartStep]_vars
C3_Witness ==
  /\ currentWritableIndex = Some(2)
  /\ isGenerating
  /\ gens # <<>>
  /\ gens[1].idx = 2
  /\ last.act = "generate"
  /\ last.ok

\* ---- C4
C4_Report ==
  \A i \in 0..(Len(chapters) - 1) :
    ~IsLocked(currentWritableIndex, i) <=>
      (currentWritableIndex = None \/ i <= currentWritableIndex[1])
C4_SelectStep ==
  Gestured("select") =>
    (last'.ok <=>
       (currentWritableIndex = None \/ last'.idx[1] <= currentWritableIndex[1]))
\* C4: chapter i is unlocked iff the cursor is null or i <= cursor, and the
\* chapter navigation acts on a click exactly for the unlocked chapters.
C4_UnlockedIffNullOrAtMostCursor == [](C4_Report) /\ [][C4_SelectStep]_vars
C4_Witness ==
  /\ currentWritableIndex = Some(2)
  /\ Len(chapters) = 4
  /\ \A i \in 0..2 : ~IsLocked(currentWritableIndex, i)
  /\ IsLocked(currentWritableIndex, 3)
  /\ last.act = "select"
  /\ ~last.ok
  /\ last.idx = Some(3)

\* ---- C5
\* C5: while the cursor is null no chapter is selected on a click, no save
\* request is issued and no generation is started.
C5_NullCursorDeniesAll ==
  [][currentWritableIndex = None =>
       /\ ~(Gestured("select") /\ last'.ok)
       /\ ~IssuesRequest("chapter")
       /\ ~StartsGeneration]_vars
C5_Witness ==
  /\ currentWritableIndex = None
  /\ isSaving
  /\ pending # <<>>
  /\ Head(pending).kind = "chapter"
  /\ Head(pending).val.cur = None
  /\ Head(pending).val.idx > serverCursor

\* ---- C6
C6_Permitted ==
  /\ HasSelectedChapter
  /\ ~WritingIsReadOnly
  /\ ~isGenerating
  /\ ~isSaving
  /\ ~IsLocked(currentWritableIndex, selectedChapterIndex[1])
  => ~TextareaDisabled /\ ~SaveDisabled /\ ~HandleSaveReturnsEarly
C6_LockedRejects ==
  HasSelectedChapter /\ IsLocked(currentWritableIndex, selectedChapterIndex[1])
    => TextareaDisabled /\ SaveDisabled /\ GenerateDisabled
C6_SaveStep ==
  IssuesRequest("chapter") =>
    /\ currentWritableIndex # None
    /\ pending'[Len(pending')].val.idx <= currentWritableIndex[1]
\* C6: the selected chapter can be edited and saved whenever it is unlocked
\* and nothing is in progress, a locked chapter takes no edit, save or
\* generation, and a save request is issued only for an index that is at
\* most the cursor.
C6_SaveNeverAboveCursor ==
  [](C6_Permitted /\ C6_LockedRejects) /\ [][C6_SaveStep]_vars
C6_Witness ==
  /\ \E k \in 1..Len(pending) :
       /\ pending[k].kind = "chapter"
       /\ pending[k].val.cur = None
       /\ pending[k].val.content = <<"u">>
       /\ pending[k].val.idx = 3
  /\ serverCursor = 0

\* ---- C7
C7_AdvanceStep ==
  IssuesRequest("advance") =>
    /\ screen # "chapter-writing"
    /\ LocalPhase = Some(PhaseOfScreen(screen))
    /\ serverPhase >= PhaseOfScreen(screen)
    /\ pending'[Len(pending')].val = PhaseOfScreen(screen) + 1
C7_PhaseStep == serverPhase' \in {serverPhase, serverPhase + 1}
C8_AdvanceNeedsSavedOutline ==
  last.act = "advance" /\ last.screen = "outline" /\ last.ok
    => last.clean /\ ~last.busy
C8_Witness ==
  /\ last.act = "advance"
  /\ last.screen = "outline"
  /\ last.ok
  /\ ~last.clean
  /\ \E k \in 1..Len(pending) : pending[k].kind = "advance"

\* ---- C9
C9_PlaceholderLast ==
  turns # <<>> =>
    /\ messages # <<>>
    /\ messages[Len(messages)].id = turns[1].pid
    /\ messages[Len(messages)].type = "final"
C9_LogStep ==
  ReceivesChunk /\ ReceivedChunk.json /\ ReceivedChunk.type \in {"thinking", "tool_result"}
    => LET n == Len(messages) IN
       /\ Len(messages') = n + 1
       /\ SubSeq(messages', 1, n - 1) = SubSeq(messages, 1, n - 1)
       /\ messages'[n + 1] = messages[n]
       /\ messages'[n].role = "assistant"
       /\ messages'[n].type = ReceivedChunk.type
       /\ messages'[n].content = ReceivedChunk.data
       /\ \A k \in 1..n : messages[k].id # messages'[n].id
\* C9: while a turn is open its placeholder is the last message, and a
\* thinking or tool_result payload adds one message right before the
\* placeholder and leaves every other message as it was.
C9_LogsGoBeforePlaceholder == [](C9_PlaceholderLast) /\ [][C9_LogStep]_vars
C9_Witness ==
  /\ Len(turns) = 1
  /\ Len(messages) = 4
  /\ messages[2].type = "thinking"
  /\ messages[3].type = "tool_result"
  /\ messages[4].id = turns[1].pid

\* ---- C10
C10_SubmitStep ==
  OpensTurn =>
    LET n == Len(messages)
        t == turns'[Len(turns')]
    IN /\ Len(messages') = n + 2
       /\ SubSeq(messages', 1, n) = messages
       /\ messages'[n + 1].role = "user"
       /\ messages'[n + 1].content = input
       /\ messages'[n + 2].role = "assistant"
       /\ messages'[n + 2].type = "final"
       /\ messages'[n + 2].content = <<>>
       /\ t.pid = messages'[n + 2].id
       /\ \A k \in 1..(n + 1) : messages'[k].id # t.pid
C10_AddressedStep ==
  turns # <<>> /\ ~OpensTurn =>
    /\ Len(messages') >= Len(messages)
    /\ \A k \in 1..Len(messages) :
         messages'[k] # messages[k] => messages[k].id = turns[1].pid
\* C10: an accepted submission appends the user message with the submitted
\* text and then an empty assistant "final" placeholder, leaves the earlier
\* messages as they were, and while the turn is open only the message with
\* the placeholder's id is changed.
C10_SubmitAppendsUserThenPlaceholder ==
  [][C10_SubmitStep /\ C10_AddressedStep]_vars
C10_Witness ==
  /\ Len(turns) = 1
  /\ Len(messages) = 4
  /\ messages[3].role = "user"
  /\ messages[3].content = <<"h", "i">>
  /\ messages[4].id = turns[1].pid
  /\ messages[4].content = <<"a">>
  /\ messages[2].content # <<>>

\* ---- C11
\* the content of the open turn's placeholder
PlaceholderContent(msgs) ==
  LET at == {k \in 1..Len(msgs) : msgs[k].id = turns[1].pid}
  IN IF at = {} THEN <<>> ELSE msgs[CHOOSE k \in at : TRUE].content
C11_TokenStep ==
  ReceivesChunk /\ ReceivedChunk.json /\ ReceivedChunk.type = "token"
    => PlaceholderContent(messages')
         = PlaceholderContent(messages) \o ReceivedChunk.data
C11_OtherStep ==
  ReceivesChunk
    /\ ~(screen = "world-setup" /\ ReceivedChunk.json /\ ReceivedChunk.type = "error")
    => Len(PlaceholderContent(messages')) >= Len(PlaceholderContent(messages))
\* C11 (as the code has it): a token payload appends its text to the open
\* turn's placeholder, a second delivery of the same payload appends it a
\* second time, and every payload other than an error payload on the
\* world-setup page leaves the placeholder's content at least as long.
C11_TokensAppend == [][C11_TokenStep /\ C11_OtherStep]_vars
\* C11 (as stated): no payload of a turn makes the placeholder's content
\* shorter.
C11_LengthNeverDecreases ==
  [][ReceivesChunk =>
       Len(PlaceholderContent(messages')) >= Len(PlaceholderContent(messages))]_vars
C11_Witness ==
  /\ Len(turns) = 1
  /\ turns[1].received = <<Chunk("token", <<"a">>), Chunk("token", <<"a">>)>>
  /\ PlaceholderContent(messages) = <<"a", "a">>

\* ---- C12
\* the token texts of a payload sequence, concatenated in arrival order
RECURSIVE TokenText(_)
TokenText(received) ==
  IF received = <<>> THEN <<>>
  ELSE LET c == Head(received) IN
       (IF c.json /\ c.type = "token" THEN c.data ELSE <<>>)
         \o TokenText(Tail(received))
IsLogChunk(c) == c.json /\ c.type \in {"thinking", "tool_result"}
\* type and text of the thinking/tool_result payloads, in arrival order
LogsOf(received) ==
  LET logs == SelectSeq(received, IsLogChunk)
  IN [k \in 1..Len(logs) |-> <<logs[k].type, logs[k].data>>]
HasErrorEvent(received) ==
  \E k \in 1..Len(received) : received[k].json /\ received[k].type = "error"
\* type and text of the messages between the last user message and the
\* placeholder at the tail
TurnLogs(msgs) ==
  LET users == {k \in 1..Len(msgs) : msgs[k].role = "user"}
      u == CHOOSE k \in users : \A j \in users : j <= k
  IN [k \in 1..(Len(msgs) - 1 - u) |-> <<msgs[u + k].type, msgs[u + k].content>>]
C12_Applied(msgs, received) ==
  /\ PlaceholderContent(msgs) = TokenText(received)
  /\ TurnLogs(msgs) = LogsOf(received)
C12_OpenTurn ==
  turns # <<>> /\ ~HasErrorEvent(turns[1].received)
    => C12_Applied(messages, turns[1].received)
C12_EndStep ==
  /\ turns # <<>>
  /\ turns' = <<>>
  /\ turns[1].pc = "stream"
  /\ ~HasErrorEvent(turns[1].received)
  /\ screen' = screen
  /\ messages' = messages
  => C12_Applied(messages', turns[1].received)
\* C12: while a chat turn has received no error payload, and when its stream
\* ends so, the placeholder's content is the concatenation of the token
\* texts received in arrival order, and the turn's thinking/tool_result
\* messages are those payloads in arrival order.
C12_EventsInArrivalOrder == [](C12_OpenTurn) /\ [][C12_EndStep]_vars
C12_Witness ==
  /\ turns = <<>>
  /\ ~isLoading
  /\ evUsed = 3
  /\ Len(messages) = 3
  /\ messages[2].type = "thinking"
  /\ messages[2].content = <<"a">>
  /\ messages[3].content = <<"a">> \o LongText

\* ---- C13
\* the maximal runs of thinking/tool_result messages, as <<first, last>>
Runs(msgs) ==
  {r \in (1..Len(msgs)) \X (1..Len(msgs)) :
     /\ r[1] <= r[2]
     /\ \A k \in r[1]..r[2] : IsToolMessage(msgs[k])
     /\ (r[1] = 1 \/ ~IsToolMessage(msgs[r[1] - 1]))
     /\ (r[2] = Len(msgs) \/ ~IsToolMessage(msgs[r[2] + 1]))}
\* the positions of the groups in a grouped view
GroupsIn(view) == {k \in 1..Len(view) : view[k].type = "tool_group"}
\* C13: every maximal run of thinking/tool_result messages of the list is
\* the content, in order, of exactly one group of the grouped view, and
\* the view has no other group.
C13_OneGroupPerRun ==
  /\ Cardinality(GroupsIn(groupedMessages)) = Cardinality(Runs(messages))
  /\ \A r \in Runs(messages) :
       Cardinality({k \in GroupsIn(groupedMessages) :
                      groupedMessages[k].messages = SubSeq(messages, r[1], r[2])}) = 1
C13_Witness ==
  /\ Len(messages) = 5
  /\ Runs(messages) = {<<1, 2>>, <<4, 5>>}
  /\ Len(groupedMessages) = 3
  /\ groupedMessages[1].type = "tool_group"
  /\ Len(groupedMessages[1].messages) = 2
  /\ groupedMessages[3].type = "tool_group"
  /\ Len(groupedMessages[3].messages) = 2

\* ---- C14
\* the messages a grouped view shows on their own, and inside groups
RECURSIVE Standalone(_)
Standalone(view) ==
  IF view = <<>> THEN 0
  ELSE (IF Head(view).type = "tool_group" THEN 0 ELSE 1) + Standalone(Tail(view))
RECURSIVE Grouped(_)
Grouped(view) ==
  IF view = <<>> THEN 0
  ELSE (IF Head(view).type = "tool_group" THEN Len(Head(view).messages) ELSE 0)
         + Grouped(Tail(view))
\* the messages of the list other than the open turn's placeholder
NonPlaceholders(msgs) ==
  Cardinality({k \in 1..Len(msgs) :
                 turns = <<>> \/ msgs[k].id # turns[1].pid})
\* C14 (as the code has it): the grouped view shows every message of the
\* list, the placeholder included: its standalone messages and the
\* messages inside its groups are as many as the list has messages.
C14_ViewShowsEveryMessage ==
  Standalone(groupedMessages) + Grouped(groupedMessages) = Len(messages)
\* C14 (as stated): the standalone messages and the messages inside groups
\* are as many as the list has messages other than the placeholder.
C14_ViewCountsNonPlaceholders ==
  Standalone(groupedMessages) + Grouped(groupedMessages) = NonPlaceholders(messages)
C14_Witness ==
  /\ Len(turns) = 1
  /\ Len(turns[1].received) = 2
  /\ Len(messages) = 4
  /\ Len(groupedMessages) = 3
  /\ Grouped(groupedMessages) = 2
  /\ Standalone(groupedMessages) = 2
  /\ NonPlaceholders(messages) = 3

\* ---- C15
\* a grouped view with every group replaced by its member messages
RECURSIVE Flatten(_)
Flatten(view) ==
  IF view = <<>> THEN <<>>
  ELSE (IF Head(view).type = "tool_group"
          THEN Head(view).messages
          ELSE <<Head(view)>>) \o Flatten(Tail(view))
C15_SameListSameGroups ==
  messages' = messages => groupedMessages' = groupedMessages
\* C15: flattening the grouped view gives back the message list, every
\* message once and in its place, and a step that leaves the list as it
\* is leaves the view as it is.
C15_FlattenGivesInput ==
  [](Flatten(groupedMessages) = messages) /\ [][C15_SameListSameGroups]_vars
C15_Witness ==
  /\ Len(messages) = 5
  /\ Len(groupedMessages) = 3
  /\ groupedMessages[2].type = "tool_group"
  /\ Len(groupedMessages[2].messages) = 3
  /\ groupedMessages[2].messages[1].type = "thinking"
  /\ groupedMessages[2].messages[2].type = "tool_result"
  /\ Flatten(groupedMessages) = messages

\* ---- C16
IsPrefix(s, t) == Len(s) <= Len(t) /\ SubSeq(t, 1, Len(s)) = s
C16_OnePayloadPerFrame ==
  \A ps \in PayloadLists :
    turns # <<>> /\ turns[1].pc = "stream" /\ turns[1].sentBody = WireOf(ps)
      => /\ IsPrefix(turns[1].yielded, ps)
         /\ (turns[1].body = <<>> => turns[1].yielded = ps)
C16_Example ==
  /\ turns # <<>>
  /\ turns[1].sentBody = Frame(<<TokenHi>>) \o Frame(<<EndJson>>)
  /\ turns[1].body = <<>>
  => /\ turns[1].yielded = << <<TokenHi>>, <<EndJson>> >>
     /\ turns[1].received = <<Chunk("token", <<"H", "i">>), Chunk("end", <<>>)>>
\* C16: of a response body made of complete frames the decoder yields the
\* payloads of the frames read so far, one per frame and in frame order,
\* however the reads cut the body, and all of them once the body is read;
\* the body of a token frame with data "Hi" and an end frame gives two
\* payloads, parsed as a token event with data "Hi" and an end event.
C16_DecoderYieldsEachFrame == C16_OnePayloadPerFrame /\ C16_Example
C16_Witness ==
  /\ Len(turns) = 1
  /\ turns[1].sentBody = Frame(<<TokenHi>>) \o Frame(<<EndJson>>)
  /\ turns[1].body = <<>>
  /\ turns[1].buffer = <<>>
  /\ turns[1].yielded = << <<TokenHi>>, <<EndJson>> >>
  /\ PlaceholderContent(messages) = <<"H", "i">>

\* ---- C17
\* the part of the body the reads have delivered so far
Consumed(turn) == SubSeq(turn.sentBody, 1, Len(turn.sentBody) - Len(turn.body))
C17_HeldBack ==
  turns # <<>> /\ turns[1].pc = "stream" =>
    LET parts == Split(Consumed(turns[1]))
    IN /\ turns[1].buffer = parts[Len(parts)]
       /\ turns[1].yielded = Yields(SubSeq(parts, 1, Len(parts) - 1))
C17_Tail ==
  \A ps \in PayloadLists, tail \in Tails :
    /\ turns # <<>>
    /\ turns[1].pc = "stream"
    /\ turns[1].sentBody = WireOf(ps) \o tail
    /\ turns[1].body = <<>>
    => turns[1].yielded = ps /\ turns[1].buffer = tail
C17_EndStep ==
  turns # <<>> /\ turns[1].pc = "stream" /\ turns' = <<>> /\ screen' = screen
    => PlaceholderContent(messages')
         \in {PlaceholderContent(messages),
              PlaceholderContent(messages) \o ConnErrorMarker}
\* C17: what the decoder has yielded are the data payloads of the parts
\* whose blank-line delimiter has been read, the text behind the last
\* delimiter read is in the buffer for the next read (empty when the body
\* ends with a delimiter), and the end of the stream yields nothing more,
\* so that a fragment without its delimiter is never yielded.
C17_FrameNeedsItsDelimiter ==
  [](C17_HeldBack /\ C17_Tail) /\ [][C17_EndStep]_vars
C17_Witness ==
  /\ Len(turns) = 1
  /\ turns[1].sentBody = Frame(<<TokenHi>>) \o DataPrefix \o <<TokenHi>>
  /\ turns[1].body = <<>>
  /\ turns[1].buffer = DataPrefix \o <<TokenHi>>
  /\ turns[1].yielded = << <<TokenHi>> >>
  /\ PlaceholderContent(messages) = <<"H", "i">>

\* ---- C18
\* C18: of a frame that has another field line before or after its data
\* line the decoder yields the data line's payload and nothing else.
C18_OnlyDataSegmentYielded ==
  /\ turns # <<>>
  /\ turns[1].pc = "stream"
  /\ turns[1].sentBody \in {FrameFieldBefore(<<TokenHi>>) \o Frame(<<EndJson>>),
                             FrameFieldAfter(<<TokenHi>>) \o Frame(<<EndJson>>)}
  /\ turns[1].body = <<>>
  => turns[1].yielded = << <<TokenHi>>, <<EndJson>> >>
C18_Witness ==
  /\ Len(turns) = 1
  /\ turns[1].sentBody = FrameFieldBefore(<<TokenHi>>) \o Frame(<<EndJson>>)
  /\ turns[1].body = <<>>
  /\ turns[1].yielded = << <<EndJson>> >>
  /\ PlaceholderContent(messages) = <<>>
C18_FieldAfterYielded ==
  /\ Len(turns) = 1
  /\ turns[1].sentBody = FrameFieldAfter(<<TokenHi>>) \o Frame(<<EndJson>>)
  /\ turns[1].body = <<>>
  /\ turns[1].yielded = << <<TokenHi>> \o <<"\n">> \o OtherField, <<EndJson>> >>
  /\ turns[1].received = <<BadChunk, Chunk("end", <<>>)>>

\* ---- C19
\* t is s with something appended
Extends(s, t) == Len(t) > Len(s) /\ SubSeq(t, 1, Len(s)) = s
\* a chat turn ends before its response has arrived: the request failed
C19_ChatFailure ==
  /\ turns # <<>>
  /\ turns[1].pc = "fetch"
  /\ turns' = <<>>
  /\ Len(messages') = Len(messages)
  => /\ Extends(PlaceholderContent(messages), PlaceholderContent(messages'))
     /\ ~isLoading'
\* a generation ends before its stream has opened: a request failed
C19_WritingFailure ==
  /\ gens # <<>>
  /\ gens[1].pc \in {"start", "connect"}
  /\ Len(gens') < Len(gens)
  /\ screen' = screen
  /\ project' = project
  => /\ Extends(currentContent, currentContent')
     /\ ~isGenerating'
\* C19: when a request of a chat turn or of a generation fails, the
\* placeholder (the live buffer on the writing page) keeps its content and
\* gets an error marker appended, and the busy flag becomes false.
C19_FailureAppendsMarker == [][C19_ChatFailure /\ C19_WritingFailure]_vars
C19_Witness ==
  /\ screen = "world-setup"
  /\ turns = <<>>
  /\ ~isLoading
  /\ Len(messages) = 2
  /\ messages[2].content = <<"a">> \o ConnErrorMarker
C19_ChatFlagStep ==
  turns # <<>> /\ turns' = <<>> => ~isLoading'
C19_WritingFlagStep ==
  gens # <<>> /\ Len(gens') < Len(gens) /\ Len(gens) = 1 => ~isGenerating'
C19_WorldSetupStep ==
  screen = "world-setup" => C19_ChatFailure
C19_BusyFlagCleared ==
  [][C19_ChatFlagStep /\ C19_WritingFlagStep /\ C19_WorldSetupStep]_vars

\* ---------------------------------------------------------------- C20
HasBadPayload(received) == \E k \in 1..Len(received) : ~received[k].json
ReceivesWritingChunk ==
  /\ gens # <<>>
  /\ gens' # <<>>
  /\ Len(gens'[1].received) > Len(gens[1].received)
ReceivedWritingChunk == gens'[1].received[Len(gens'[1].received)]
\* a chat page drops a payload that does not parse
C20_ChatDrops ==
  ReceivesChunk /\ ~ReceivedChunk.json
    => /\ messages' = messages
       /\ isLoading' = isLoading
       /\ turns'[1].pc = "stream"
\* the writing page drops a payload that does not parse
C20_WritingDrops ==
  ReceivesWritingChunk /\ ~ReceivedWritingChunk.json
    => /\ currentContent' = currentContent
       /\ writingLogs' = writingLogs
       /\ error' = error
       /\ isGenerating' = isGenerating
       /\ gens'[1].pc = "stream"
\* a chat page applies the payloads that follow one it dropped
C20_ChatGoesOn ==
  /\ turns # <<>>
  /\ HasBadPayload(turns[1].received)
  /\ ~HasErrorEvent(turns[1].received)
  => C12_Applied(messages, turns[1].received)
\* the writing page applies the payloads that follow one it dropped
C20_WritingGoesOn ==
  /\ ReceivesWritingChunk
  /\ HasBadPayload(gens[1].received)
  /\ ReceivedWritingChunk.json
  => /\ ReceivedWritingChunk.type = "content_chunk"
          => currentContent' = currentContent \o ReceivedWritingChunk.data
     /\ ReceivedWritingChunk.type \in {"thinking", "tool_result", "error"}
          => /\ Len(writingLogs') = Len(writingLogs) + 1
             /\ writingLogs'[Len(writingLogs')].type = ReceivedWritingChunk.type
             /\ writingLogs'[Len(writingLogs')].data = ReceivedWritingChunk.data
\* C20: a payload that does not parse as JSON changes neither the
\* transcript, nor the live buffer, nor the log, and leaves the turn open
\* and busy; the payloads that follow it in the same stream are applied as
\* if it had not arrived.
C20_BadPayloadDropped ==
  /\ [][C20_ChatDrops /\ C20_WritingDrops /\ C20_WritingGoesOn]_vars
  /\ [](C20_ChatGoesOn)
\* a chat turn that dropped a payload and then appended a token
C20_Witness ==
  /\ turns # <<>>
  /\ Len(turns[1].received) = 2
  /\ ~turns[1].received[1].json
  /\ turns[1].received[2].json
  /\ turns[1].received[2].type = "token"
  /\ PlaceholderContent(messages) = turns[1].received[2].data
  /\ isLoading
\* a generation that dropped a payload and then extended the live buffer
C20_WritingCase ==
  /\ gens # <<>>
  /\ Len(gens[1].received) = 2
  /\ ~gens[1].received[1].json
  /\ gens[1].received[2].json
  /\ gens[1].received[2].type = "content_chunk"
  /\ currentContent = gens[1].received[2].data
  /\ isGenerating

\* ---------------------------------------------------------------- C21
ReceivesError == ReceivesChunk /\ ReceivedChunk.json /\ ReceivedChunk.type = "error"
\* C21: on both chat pages, a step that receives an error payload leaves
\* the error marker followed by the payload's text as the content of the
\* turn's placeholder.
C21_ErrorWritesMarker ==
  [][ReceivesError =>
       PlaceholderContent(messages') = ErrorMarker \o ReceivedChunk.data]_vars
\* the chaptering page after an error payload: the placeholder shows nothing
C21_Witness ==
  /\ screen = "chaptering"
  /\ turns # <<>>
  /\ Len(turns[1].received) = 1
  /\ turns[1].received[1].json
  /\ turns[1].received[1].type = "error"
  /\ PlaceholderContent(messages) = <<>>
\* the world-setup page after an error payload: the placeholder is the marker
C21_WorldSetupCase ==
  /\ screen = "world-setup"
  /\ turns # <<>>
  /\ Len(turns[1].received) = 1
  /\ turns[1].received[1].json
  /\ turns[1].received[1].type = "error"
  /\ PlaceholderContent(messages) = ErrorMarker \o turns[1].received[1].data
\* on the world-setup page the error payload does overwrite the placeholder
C21_WorldSetupWritesMarker ==
  [][ReceivesError /\ screen = "world-setup" =>
       PlaceholderContent(messages') = ErrorMarker \o ReceivedChunk.data]_vars

\* ---------------------------------------------------------------- C22
KnownKinds == {"thinking", "tool_result", "token", "content_chunk", "end", "error"}
IsUnknownKind(c) == c.json /\ c.type \notin KnownKinds
C22_ChatIgnores ==
  ReceivesChunk /\ IsUnknownKind(ReceivedChunk)
    => /\ messages' = messages
       /\ isLoading' = isLoading
       /\ error' = error
       /\ turns'[1].pc = "stream"
C22_WritingIgnores ==
  ReceivesWritingChunk /\ IsUnknownKind(ReceivedWritingChunk)
    => /\ currentContent' = currentContent
       /\ writingLogs' = writingLogs
       /\ error' = error
       /\ isGenerating' = isGenerating
       /\ gens'[1].pc = "stream"
\* C22: a payload that parses but whose type is none of thinking,
\* tool_result, token, content_chunk, end, error changes neither the
\* messages, nor the live buffer, nor the log, sets no error and leaves the
\* turn in its stream loop with the busy flag as it was.
C22_UnknownKindIgnored == [][C22_ChatIgnores /\ C22_WritingIgnores]_vars
\* a generation that received a content chunk and then a payload of unknown
\* type: the buffer holds the chunk, the log is empty, the page is busy
C22_Witness ==
  /\ gens # <<>>
  /\ Len(gens[1].received) = 2
  /\ gens[1].received[1].json
  /\ gens[1].received[1].type = "content_chunk"
  /\ IsUnknownKind(gens[1].received[2])
  /\ currentContent = gens[1].received[1].data
  /\ writingLogs = <<>>
  /\ error = None
  /\ isGenerating
\* a chat turn that received a payload of unknown type and nothing else
C22_ChatCase ==
  /\ turns # <<>>
  /\ Len(turns[1].received) = 1
  /\ IsUnknownKind(turns[1].received[1])
  /\ PlaceholderContent(messages) = <<>>
  /\ isLoading

\* ---------------------------------------------------------------- C23
\* concatenation of the content_chunk texts of a payload sequence
RECURSIVE ContentText(_)
ContentText(received) ==
  IF received = <<>> THEN <<>>
  ELSE LET c == Head(received) IN
       (IF c.json /\ c.type = "content_chunk" THEN c.data ELSE <<>>)
         \o ContentText(Tail(received))
IsDiagnostic(c) == c.json /\ c.type \in {"thinking", "tool_result", "error"}
\* type and text of the diagnostic payloads, in arrival order
DiagnosticsOf(received) ==
  LET d == SelectSeq(received, IsDiagnostic)
  IN [k \in 1..Len(d) |-> <<d[k].type, d[k].data>>]
LogEntries(logs) == [k \in 1..Len(logs) |-> <<logs[k].type, logs[k].data>>]
\* handleGenerate passes its guard: buffer and log start empty
C23_ResetStep ==
  Len(gens') > Len(gens) => currentContent' = <<>> /\ writingLogs' = <<>>
C23_ContentStep ==
  /\ ReceivesWritingChunk
  /\ ReceivedWritingChunk.json
  /\ ReceivedWritingChunk.type = "content_chunk"
  => /\ currentContent' = currentContent \o ReceivedWritingChunk.data
     /\ writingLogs' = writingLogs
C23_DiagnosticStep ==
  /\ ReceivesWritingChunk
  /\ IsDiagnostic(ReceivedWritingChunk)
  => /\ LogEntries(writingLogs') =
          Append(LogEntries(writingLogs),
                 <<ReceivedWritingChunk.type, ReceivedWritingChunk.data>>)
     /\ SubSeq(writingLogs', 1, Len(writingLogs)) = writingLogs
     /\ currentContent' = currentContent
\* the stream of a generation ends
C23_StreamEnds == gens # <<>> /\ gens[1].pc = "stream" /\ gens' = <<>>
C23_EndStep ==
  C23_StreamEnds
    => /\ currentContent = ContentText(gens[1].received)
       /\ LogEntries(writingLogs) = DiagnosticsOf(gens[1].received)
\* the effect of every step of a generation on buffer and log
C23_ReducerSteps == [][C23_ResetStep /\ C23_ContentStep /\ C23_DiagnosticStep]_vars
\* C23: a generation starts with an empty buffer and an empty log, a
\* content_chunk appends its text to the buffer only, a thinking,
\* tool_result or error payload appends one entry to the log only, and when
\* the stream ends the buffer is the concatenation of the content_chunk
\* texts and the log lists the diagnostic payloads, both in arrival order.
C23_BufferIsConcatenation ==
  [][C23_ResetStep /\ C23_ContentStep /\ C23_DiagnosticStep /\ C23_EndStep]_vars
\* a generation that received one content chunk and whose buffer is empty
C23_Witness ==
  /\ gens # <<>>
  /\ gens[1].pc = "stream"
  /\ isGenerating
  /\ Len(gens[1].received) = 1
  /\ gens[1].received[1].json
  /\ gens[1].received[1].type = "content_chunk"
  /\ currentContent = <<>>
\* the log at the end of a stream is the diagnostic payloads in arrival order
C23_LogIsDiagnostics ==
  [][C23_StreamEnds =>
       LogEntries(writingLogs) = DiagnosticsOf(gens[1].received)]_vars

\* ---------------------------------------------------------------- C24
\* a chat turn is open before and after the step
C24_ChatStep ==
  turns # <<>> /\ turns' # <<>> /\ messages' # messages => ReceivesChunk
\* a generation is open before and after the step
C24_WritingStep ==
  gens # <<>> /\ gens' # <<>> /\ currentContent' # currentContent
    => ReceivesWritingChunk
\* C24: while a chat turn is open only a step that applies one of its
\* payloads changes the messages, and while a generation is open only a
\* step that applies one of its payloads changes the live buffer.
C24_OnlyReducerWrites == [][C24_ChatStep /\ C24_WritingStep]_vars
\* the user selected another chapter while a generation was streaming: the
\* buffer shows that chapter's saved text
C24_Witness ==
  /\ gens # <<>>
  /\ gens[1].pc = "stream"
  /\ isGenerating
  /\ selectedChapterIndex # None
  /\ selectedChapterIndex # Some(gens[1].idx)
  /\ last = Gesture("select", TRUE, selectedChapterIndex)
  /\ currentContent = SyncContent(chapters, selectedChapterIndex)
  /\ currentContent # ContentText(gens[1].received)
\* on the chat pages only the payloads of the open turn change the messages
C24_ChatOnlyReducer == [][C24_ChatStep]_vars

\* ---------------------------------------------------------------- C25
\* the chapters the page does not lock for cursor cur
UnlockedChapters(cur) == {i \in 0..(NChapters - 1) : ~IsLocked(cur, i)}
\* the backend's cursor never decreases
C25_BackendMonotone == serverCursor' >= serverCursor
\* the page takes a new cursor only from a reply of the backend
C25_AdoptsReplies ==
  currentWritableIndex' # currentWritableIndex /\ screen' = screen
    => /\ currentWritableIndex' # None
       /\ currentWritableIndex'[1] \in cursorReplies
C25_CursorStep ==
  currentWritableIndex # None /\ currentWritableIndex' # None
    => currentWritableIndex'[1] >= currentWritableIndex[1]
C25_UnlockedStep ==
  currentWritableIndex # None /\ currentWritableIndex' # None
    => UnlockedChapters(currentWritableIndex)
         \subseteq UnlockedChapters(currentWritableIndex')
\* the cursor values come from the backend only, and the backend never
\* lowers its cursor
C25_OnlyBackendValues == [][C25_BackendMonotone /\ C25_AdoptsReplies]_vars
\* C25: the page takes its cursor only from replies of the backend, and
\* while it stays mounted a cursor it holds is never replaced by a smaller
\* one, so the set of unlocked chapters never loses a member, in whatever
\* order the replies to its cursor requests arrive.
C25_CursorNeverShrinks ==
  [][C25_BackendMonotone /\ C25_AdoptsReplies /\ C25_CursorStep
       /\ C25_UnlockedStep]_vars
\* the page holds cursor 0 although a chapter load issued by the mount
\* effect when the cursor was 1 is still in flight
C25_Witness ==
  /\ screen = "chapter-writing"
  /\ currentWritableIndex = Some(0)
  /\ serverCursor = 1
  /\ \E f \in chapterFetches : f.cur = Some(1)

\* ---------------------------------------------------------------- C26
\* the backend stores the phase asked for by the world-setup page
C26_AdvanceSucceeds == serverPhase = WORLD_SETUP /\ serverPhase' = CHAPERING
\* ... and its answer reaches the handler that asked
C26_AnswerArrives == C26_AdvanceSucceeds /\ Head(pending).alive
\* the backend is past world setup and the mounted page does not hold an
\* earlier phase
C26_GateClosed ==
  /\ serverPhase >= CHAPERING
  /\ LocalPhase \notin {Some(OUTLINE), Some(WORLD_SETUP)}
C26_EarlyMutation == C2_MutationStep /\ screen \in {"outline", "world-setup"}
C26_AnswerLost ==
  /\ serverPhase = CHAPERING
  /\ screen = "world-setup"
  /\ project = Some(WORLD_SETUP)

\* ---------------------------------------------------------------- C27
\* the answer to an advance request comes back to the page that sent it and
\* the backend has not stored the phase asked for
C27_AdvanceRejected ==
  /\ pending # <<>>
  /\ Head(pending).kind = "advance"
  /\ Head(pending).mounted
  /\ Len(pending') < Len(pending)
  /\ serverPhase' # Head(pending).val
\* C27: when an advance request of the outline, world-setup or chaptering
\* page is rejected or fails, the persisted and the local phase are
\* unchanged, the same page stays mounted, and its error state is set.
C27_RejectedAdvanceSetsError ==
  [][C27_AdvanceRejected =>
       /\ screen \in {"outline", "world-setup", "chaptering"}
       /\ serverPhase' = serverPhase
       /\ LocalPhase' = LocalPhase
       /\ project' = project
       /\ screen' = screen
       /\ projectFetch' = projectFetch
       /\ error' # None]_vars
\* the chaptering page after its advance request was rejected
C27_Witness ==
  /\ screen = "chaptering"
  /\ serverPhase = CHAPERING
  /\ project = Some(CHAPERING)
  /\ last.act = "advance"
  /\ last.ok
  /\ pending = <<>>
  /\ error = Some("advance")
\* the same on the outline page and on the world-setup page
C27_OutlineCase ==
  /\ screen = "outline"
  /\ serverPhase = OUTLINE
  /\ projectPhase = Some(OUTLINE)
  /\ last.act = "advance"
  /\ last.ok
  /\ pending = <<>>
  /\ error = Some("advance")
C27_WorldSetupCase ==
  /\ screen = "world-setup"
  /\ serverPhase = WORLD_SETUP
  /\ project = Some(WORLD_SETUP)
  /\ last.act = "advance"
  /\ last.ok
  /\ pending = <<>>
  /\ error = Some("advance")

\* ---------------------------------------------------------------- C28
\* the busy flag is up exactly while a turn is in its try block
C28_FlagFollowsTurn ==
  /\ screen \in ChatScreens => (isLoading <=> turns # <<>>)
  /\ screen = "chapter-writing" => (isGenerating <=> gens # <<>>)
\* the step in which a stream ends or fails leaves the loop and clears the flag
C28_EndStep ==
  /\ turns # <<>> /\ Len(turns') < Len(turns) => turns' = <<>> /\ ~isLoading'
  /\ gens # <<>> /\ Len(gens') < Len(gens) => gens' = <<>> /\ ~isGenerating'
\* with no turn open, the form of a loaded page in its phase takes an
\* input that is not blank
C28_FormOpenAgain ==
  /\ screen \in ChatScreens
  /\ turns = <<>>
  /\ ~ChatIsReadOnly
  /\ Trim(input) # <<>>
  => ~ChatFormDisabled /\ ~HandleSubmitReturnsEarly(input, isLoading)
\* C28: a busy flag is up only while a turn is open; the step that ends a
\* turn's stream, by end-of-data or by failure, closes the turn and clears
\* the flag; when every request is answered and every opened stream ends
\* or fails, every open turn is eventually closed with the flag down, and
\* the page then accepts a submission again.
C28_EveryTurnEnds ==
  /\ [](C28_FlagFollowsTurn /\ C28_FormOpenAgain)
  /\ [][C28_EndStep]_vars
  /\ (turns # <<>>) ~> (turns = <<>> /\ ~isLoading)
  /\ (gens # <<>>) ~> (gens = <<>> /\ ~isGenerating)
\* a second turn is open: the first one ended and the page took another
\* submission
C28_Witness ==
  /\ screen \in ChatScreens
  /\ UserCount(messages) = 2
  /\ Len(turns) = 1
  /\ turns[1].pc = "stream"
  /\ isLoading
  /\ last.act = "submit"
  /\ last.ok
\* the decoder's loop ends: a turn whose body is read through the decoder
\* is eventually closed with the flag down and nothing left to read
C28_DecoderEnds == (turns # <<>>) ~> (turns = <<>> /\ ~isLoading)

\* ---------------------------------------------------------------- C29
HasEndEvent(received) ==
  \E k \in 1..Len(received) : received[k].json /\ received[k].type = "end"
C29_ChatStep ==
  ReceivesChunk /\ HasEndEvent(turns[1].received) => messages' = messages
C29_WritingStep ==
  ReceivesWritingChunk /\ HasEndEvent(gens[1].received)
    => currentContent' = currentContent /\ writingLogs' = writingLogs
\* C29: once a turn has processed an end payload, a payload arriving later
\* on the same stream changes neither the messages nor the live buffer nor
\* the log.
C29_NothingAfterEnd == [][C29_ChatStep /\ C29_WritingStep]_vars
\* a chat turn that received end and then a token: the token is in the
\* placeholder and the turn is still open
C29_Witness ==
  /\ turns # <<>>
  /\ Len(turns[1].received) = 2
  /\ turns[1].received[1].json
  /\ turns[1].received[1].type = "end"
  /\ turns[1].received[2].json
  /\ turns[1].received[2].type = "token"
  /\ PlaceholderContent(messages) = turns[1].received[2].data
  /\ isLoading
\* a generation that received end and then a content chunk
C29_WritingCase ==
  /\ gens # <<>>
  /\ Len(gens[1].received) = 2
  /\ gens[1].received[1].json
  /\ gens[1].received[1].type = "end"
  /\ gens[1].received[2].json
  /\ gens[1].received[2].type = "content_chunk"
  /\ currentContent = gens[1].received[2].data
  /\ isGenerating
\* the end payload itself changes nothing and leaves the turn open
C29_EndIsNoOp ==
  [][/\ ReceivesChunk /\ ReceivedChunk.json /\ ReceivedChunk.type = "end"
          => messages' = messages /\ isLoading' = isLoading
     /\ ReceivesWritingChunk /\ ReceivedWritingChunk.json
          /\ ReceivedWritingChunk.type = "end"
          => /\ currentContent' = currentContent
             /\ writingLogs' = writingLogs
             /\ isGenerating' = isGenerating]_vars

\* ---------------------------------------------------------------- C30
\* a generation has asked for, or is reading, the progress stream
C30_StreamWanted(g) == g.pc \in {"connect", "stream"}
\* the progress stream is asked for and read only after a 202
C30_StreamOnlyAfterAccepted ==
  \A k \in 1..Len(gens) :
    C30_StreamWanted(gens[k]) \/ gens[k].received # <<>>
      => gens[k].status = Some(ACCEPTED)
\* the step that tests an answer whose status is not 202
C30_OtherStatusTested ==
  /\ gens # <<>>
  /\ gens[1].pc = "answered"
  /\ gens[1].status # Some(ACCEPTED)
  /\ gens' # gens
C30_RefusedStep ==
  C30_OtherStatusTested
    => /\ gens' = <<>>
       /\ ~isGenerating'
       /\ error' # None
       /\ currentContent' = currentContent
       /\ writingLogs' = writingLogs
\* C30: the progress stream is requested and read only for a start call
\* answered with 202; for any other status, 200 included, the handler
\* leaves its try block without requesting the stream or applying a
\* payload, and isGenerating is false afterwards.
C30_StreamNeeds202 == [](C30_StreamOnlyAfterAccepted) /\ [][C30_RefusedStep]_vars
\* a start call answered with 200 was turned down: no generation open, the
\* flag down, the error set, buffer and log as handleGenerate reset them
C30_Witness ==
  /\ screen = "chapter-writing"
  /\ last = Gesture("generate", TRUE, None)
  /\ gens = <<>>
  /\ ~isGenerating
  /\ error = WritingError
  /\ serverJob = None
  /\ currentContent = <<>>
  /\ writingLogs = <<>>
  /\ writes = 1
\* the answer 200 has arrived and is about to be tested
C30_PlainOkAnswered ==
  /\ gens # <<>>
  /\ gens[1].pc = "answered"
  /\ gens[1].status = Some(200)
  /\ isGenerating

\* ---- C31
\* the text has a syntax error, or the value it denotes is not an object
\* with a string title and a list of string plots
RefusedText(text) ==
  LET parsed == YamlParse(text) IN
  \/ ~parsed.ok
  \/ parsed.value.kind # "object"
  \/ parsed.value.title # "string"
  \/ parsed.value.plots \notin {"strings", "empty"}
\* the debounce timer fires on the editable outline page with such a text
\* (the page stays mounted: its phase is not reset)
C31_RefusalStep ==
  /\ screen = "outline"
  /\ screen' = "outline"
  /\ ~OutlineIsReadOnly
  /\ projectPhase' = projectPhase
  /\ debounceTimer # None
  /\ debounceTimer' = None
  /\ RefusedText(debounceTimer[1])
\* C31: an auto-save of outline text that fails to parse, or whose parsed
\* value fails the structural check, is refused: no write request is
\* issued, the save status becomes "error", and the last saved outline
\* (the page's copy and the backend's) is unchanged.
C31_InvalidTextRefused ==
  [][C31_RefusalStep =>
       /\ pending' = pending
       /\ saveStatus' = "error"
       /\ outline' = outline
       /\ serverOutline' = serverOutline]_vars
\* the page after refusing a text with a syntax error
C31_Witness ==
  /\ OutlineShown
  /\ ~OutlineIsReadOnly
  /\ yamlText = "bad"
  /\ debounceTimer = None
  /\ saveStatus = "error"
  /\ pending = <<>>
  /\ outline = Some(serverOutline)
\* the page after refusing a text that parses to a non-outline value
C31_StructuralCase ==
  /\ OutlineShown
  /\ ~OutlineIsReadOnly
  /\ yamlText = ""
  /\ debounceTimer = None
  /\ saveStatus = "error"
  /\ pending = <<>>
  /\ outline = Some(serverOutline)

\* ---- C32
C32_UniqueIds ==
  \A i, j \in 1..Len(messages) : messages[i].id = messages[j].id => i = j
\* a token or error payload changes at most the one message that carries
\* the open turn's placeholder id
C32_AddressedStep ==
  ReceivesChunk /\ ReceivedChunk.json /\ ReceivedChunk.type \in {"token", "error"}
    => LET at == {k \in 1..Len(messages) : messages[k].id = turns[1].pid}
       IN /\ Cardinality(at) = 1
          /\ Len(messages') = Len(messages)
          /\ \A k \in 1..Len(messages) : k \notin at => messages'[k] = messages[k]
\* C32: no two messages of a transcript (user messages, placeholders,
\* thinking/tool_result messages) share an identifier, so a payload
\* addressed to a placeholder's identifier changes that one message only.
C32_IdentifiersUnique == [](C32_UniqueIds) /\ [][C32_AddressedStep]_vars
\* a second turn, with logs in the transcript, whose placeholder alone has
\* taken a token
C32_Witness ==
  /\ Len(turns) = 1
  /\ UserCount(messages) = 2
  /\ Cardinality({k \in 1..Len(messages) :
                    messages[k].type \in {"thinking", "tool_result"}}) >= 2
  /\ messages[Len(messages)].id = turns[1].pid
  /\ messages[Len(messages)].content # <<>>
  /\ \E k \in 1..Len(messages) :
       /\ messages[k].id.kind = "assistant"
       /\ messages[k].id # turns[1].pid
       /\ messages[k].content = <<>>

\* ---- C33
LogCount(msgs) ==
  Cardinality({k \in 1..Len(msgs) : msgs[k].type \in {"thinking", "tool_result"}})
\* the message is the placeholder of a turn that is open
IsOpenPlaceholder(m) == \E i \in 1..Len(turns) : turns[i].pid = m.id
\* while the page stays mounted, every message that is not the open turn's
\* placeholder keeps its place, content and kind
C33_FrameStep ==
  messages' # <<>> =>
    \A k \in 1..Len(messages) :
      ~IsOpenPlaceholder(messages[k]) =>
        /\ k <= Len(messages')
        /\ messages'[k] = messages[k]
\* a thinking/tool_result payload creates one such message, which carries
\* the payload; no other step creates one
C33_CreationStep ==
  messages' # <<>> =>
    IF ReceivesChunk /\ ReceivedChunk.json
         /\ ReceivedChunk.type \in {"thinking", "tool_result"}
      THEN /\ LogCount(messages') = LogCount(messages) + 1
           /\ \E k \in 1..Len(messages') :
                /\ messages'[k].type = ReceivedChunk.type
                /\ messages'[k].content = ReceivedChunk.data
                /\ \A j \in 1..Len(messages) : messages[j].id # messages'[k].id
      ELSE LogCount(messages') = LogCount(messages)
\* C33: thinking/tool_result messages are created one per payload and are
\* never changed afterwards, and the payloads of a turn change no message
\* other than that turn's own placeholder: user messages and the messages
\* of earlier turns stay as they were.
C33_LogsImmutable == [][C33_FrameStep /\ C33_CreationStep]_vars
\* a second turn whose thinking message kept its payload while a token and
\* a further log arrived after it, the first turn's messages untouched
C33_Witness ==
  /\ Len(turns) = 1
  /\ UserCount(messages) = 2
  /\ Len(messages) = 6
  /\ Len(turns[1].received) = 3
  /\ turns[1].received[1].type = "thinking"
  /\ turns[1].received[2].type = "token"
  /\ turns[1].received[3].type = "tool_result"
  /\ messages[4].type = "thinking"
  /\ messages[4].content = turns[1].received[1].data
  /\ messages[5].type = "tool_result"
  /\ messages[6].content = turns[1].received[2].data
  /\ messages[2].content = <<>>

\* ---- C34
\* the step issues a renewal call, for the effect run C34_RenewalRun
C34_IssuesRenewal == Len(renewals') > Len(renewals)
C34_RenewalRun == heartbeatEffects[renewals'[Len(renewals')]]
\* C34: a renewal call is issued for a project only while the workspace is
\* open on that project: once the layout is unmounted or switched to another
\* project, no further heartbeat call goes out for the project it left,
\* whether the teardown came before or after the activation call completed.
C34_NoRenewalAfterTeardown ==
  [][C34_IssuesRenewal => layoutProject = Some(C34_RenewalRun.projectId)]_vars
\* the workspace was closed while the activation call was awaited; the
\* timer started afterwards runs and has issued a renewal
C34_Witness ==
  /\ layoutProject = None
  /\ \E k \in 1..Len(renewals) :
       /\ heartbeatEffects[renewals[k]].cleanedUp
       /\ heartbeatEffects[renewals[k]].interval = "running"
\* the same after a switch to another project while the first one's
\* activation call was awaited
C34_SwitchCase ==
  /\ layoutProject = Some("q")
  /\ \A i \in 2..Len(heartbeatEffects) : heartbeatEffects[i].projectId = "q"
  /\ \E k \in 1..Len(renewals) :
       /\ renewals[k] = 1
       /\ heartbeatEffects[1].cleanedUp
       /\ heartbeatEffects[1].interval = "running"
\* a teardown that comes after the activation call completed stops the
\* timer for good: no timer of a settled run starts to run later
C34_LateTeardownStep ==
  \A i \in 1..Len(heartbeatEffects) :
    /\ (~heartbeatEffects[i].cleanedUp /\ heartbeatEffects'[i].cleanedUp
          /\ heartbeatEffects[i].pc = "settled")
         => heartbeatEffects'[i].interval # "running"
    /\ (heartbeatEffects[i].pc = "settled" /\ heartbeatEffects[i].interval # "running")
         => heartbeatEffects'[i].interval # "running"
C34_LateTeardownStops ==
  [][C34_LateTeardownStep /\
     (C34_IssuesRenewal => C34_RenewalRun.interval = "running")]_vars
\* a failed renewal changes nothing but the log
C34_RenewalFailedStep ==
  /\ Len(renewals') < Len(renewals)
  /\ \E i \in 1..Len(heartbeatEffects) :
       heartbeatEffects' =
         SetAt(heartbeatEffects, i, [heartbeatEffects[i] EXCEPT !.lastRenewal = "failed"])
C34_FailedRenewalKeepsSession ==
  [][C34_RenewalFailedStep =>
       /\ layoutProject' = layoutProject
       /\ isProjectActive' = isProjectActive
       /\ layoutError' = layoutError
       /\ sidebarProject' = sidebarProject
       /\ \A i \in 1..Len(heartbeatEffects) :
            heartbeatEffects'[i].interval = heartbeatEffects[i].interval]_vars
\* an open workspace whose latest renewal failed and whose timer still runs
C34_RenewsAfterFailure ==
  /\ layoutProject # None
  /\ isProjectActive
  /\ layoutError = None
  /\ heartbeatEffects[CurrentRun].lastRenewal = "failed"
  /\ heartbeatEffects[CurrentRun].interval = "running"
  /\ ticks < MaxTicks

\* ---- C36
\* the project is not loaded in the sidebar, or its phase is below the
\* phase of screen s
C36_BelowPhase(s) ==
  \/ sidebarProject = None
  \/ sidebarProject[1] < PhaseOfScreen(s)
\* C36: the sidebar item of every phase P is disabled exactly when the
\* project is not loaded or its phase is below P, at the link and at the
\* button alike; the chapter-writing item is disabled in every phase below
\* CHAPER_WRITING.
C36_ItemDisabledBelowPhase ==
  \A s \in Screens :
    /\ LinkDisabled(s) = C36_BelowPhase(s)
    /\ ButtonDisabled(s) = C36_BelowPhase(s)
\* the sidebar of a project in the chaptering phase: the chapter-writing
\* link takes no pointer events while its button is rendered enabled
C36_Witness ==
  /\ layoutProject # None
  /\ sidebarProject = Some(CHAPERING)
  /\ LinkDisabled("chapter-writing")
  /\ ~ButtonDisabled("chapter-writing")
\* what holds: every link, and every button but the chapter-writing one,
\* follows the rule
C36_LinksFollowRule ==
  \A s \in Screens :
    /\ LinkDisabled(s) = C36_BelowPhase(s)
    /\ s # "chapter-writing" => ButtonDisabled(s) = C36_BelowPhase(s)
\* a loaded sidebar in which an item is disabled and another is not
C36_LoadedCase ==
  /\ sidebarProject = Some(WORLD_SETUP)
  /\ ~LinkDisabled("world-setup")
  /\ ButtonDisabled("chaptering")

\* ---- C35
\* the advance button of the mounted page is on screen and enabled
C35_AdvanceOffered ==
  CASE screen = "outline" ->
         OutlineShown /\ OutlineAdvanceRendered /\ ~OutlineAdvanceDisabled
    [] screen = "world-setup" -> error = None /\ WorldSetupAdvanceRendered
    [] screen = "chaptering" -> error = None /\ ChapteringAdvanceRendered
    [] OTHER -> FALSE
\* the gate permits the advance: the local phase is the page's own and, on
\* the outline page, the outline is saved
C35_GatePermitsAdvance ==
  /\ LocalPhase = Some(PhaseOfScreen(screen))
  /\ screen = "outline" => saveStatus = "success"
\* the page that sent an advance request gets a rejection
C35_AdvanceRejected ==
  /\ pending # <<>>
  /\ Head(pending).kind = "advance"
  /\ Head(pending).mounted
  /\ Len(pending') < Len(pending)
  /\ serverPhase' = serverPhase
\* C35: an error other than a failed initial load is recoverable: after a
\* rejected advance the page still offers every action its gate permits,
\* so the advance can be tried again.
C35_RejectedAdvanceCanBeRetried ==
  [][C35_AdvanceRejected /\ C35_GatePermitsAdvance'
       => C35_AdvanceOffered']_vars
\* the world-setup page of a loaded world-setup project after a rejection:
\* only the error text is rendered
C35_Witness ==
  /\ screen = "world-setup"
  /\ project = Some(WORLD_SETUP)
  /\ serverPhase = WORLD_SETUP
  /\ error = Some("advance")
  /\ C35_GatePermitsAdvance
  /\ ~C35_AdvanceOffered
\* the same on the outline page, whose outline is saved
C35_OutlineCase ==
  /\ screen = "outline"
  /\ projectPhase = Some(OUTLINE)
  /\ saveStatus = "success"
  /\ error = Some("advance")
  /\ C35_GatePermitsAdvance
  /\ ~C35_AdvanceOffered
\* what holds: a failed save of the outline leaves the editor on screen and
\* editable
C35_SaveRejected ==
  /\ pending # <<>>
  /\ Head(pending).kind = "outline"
  /\ Head(pending).mounted
  /\ Len(pending') < Len(pending)
  /\ saveStatus' = "error"
C35_FailedSaveRecoverable ==
  [][C35_SaveRejected /\ OutlineShown
       => OutlineShown' /\ OutlineIsReadOnly' = OutlineIsReadOnly]_vars
C35_FailedSaveCase ==
  /\ OutlineShown
  /\ ~OutlineIsReadOnly
  /\ saveStatus = "error"
  /\ YamlParse(yamlText).ok
  /\ IsValidOutlineData(YamlParse(yamlText).value)
  /\ pending = <<>>

\* ---- C37
\* what the decoder yields, and what it keeps, when the text s arrives in
\* one read
C37_OneRead(s) ==
  LET parts == Split(s)
  IN [yielded |-> Yields(SubSeq(parts, 1, Len(parts) - 1)),
      buffer |-> parts[Len(parts)]]
\* C37: the payloads the decoder has yielded, and the text it holds back,
\* depend only on the text delivered so far and not on how the reads cut
\* it: they are what one read of the whole text would give, also when a cut
\* falls inside the blank-line delimiter or inside the "data: " prefix.
C37_ReadsDoNotMatter ==
  \A i \in 1..Len(turns) :
    turns[i].pc = "stream" =>
      /\ turns[i].yielded = C37_OneRead(Consumed(turns[i])).yielded
      /\ turns[i].buffer = C37_OneRead(Consumed(turns[i])).buffer
      /\ turns[i].received = Parsed(C37_OneRead(Consumed(turns[i])).yielded)
\* two frames read so far up to a cut inside the second frame's delimiter
C37_Witness ==
  /\ Len(turns) = 1
  /\ turns[1].sentBody = Frame(<<TokenHi>>) \o Frame(<<EndJson>>)
  /\ turns[1].yielded = << <<TokenHi>> >>
  /\ turns[1].buffer = DataPrefix \o <<EndJson>> \o <<"\n">>
  /\ turns[1].body = <<"\n">>
\* the same body read up to a cut inside the second frame's "data: " prefix
C37_PrefixCase ==
  /\ Len(turns) = 1
  /\ turns[1].sentBody = Frame(<<TokenHi>>) \o Frame(<<EndJson>>)
  /\ turns[1].yielded = << <<TokenHi>> >>
  /\ turns[1].buffer = <<"d", "a", "t">>

\* ---- C38
\* C38: on the editable outline page the save status "success" is shown
\* only while the editor holds a valid outline that is the persisted one,
\* whatever the order of edits, timer runs and answers to save requests.
C38_SuccessMeansSaved ==
  /\ OutlineShown
  /\ ~OutlineIsReadOnly
  /\ saveStatus = "success"
  => /\ YamlParse(yamlText).ok
     /\ IsValidOutlineData(YamlParse(yamlText).value)
     /\ ~OutlineUnsaved
\* the answer to the save of an earlier text has set "success" while the
\* editor holds a later text that is not saved and whose timer is pending
C38_Witness ==
  /\ OutlineShown
  /\ ~OutlineIsReadOnly
  /\ saveStatus = "success"
  /\ yamlText = "B"
  /\ serverOutline = OutlineValue("A")
  /\ debounceTimer = Some("B")
  /\ pending = <<>>
\* the same with a text in the editor that is no valid outline
C38_InvalidCase ==
  /\ OutlineShown
  /\ ~OutlineIsReadOnly
  /\ saveStatus = "success"
  /\ yamlText = "bad"
  /\ pending = <<>>

\* ... and with that text already refused by its own auto-save
C38_RefusedCase ==
  /\ OutlineShown
  /\ ~OutlineIsReadOnly
  /\ saveStatus = "success"
  /\ yamlText = "bad"
  /\ debounceTimer = None
  /\ pending = <<>>

\* ---- C39
\* a save request of the mounted page is on its way
C39_SaveInFlight ==
  \E k \in 1..Len(pending) : pending[k].kind = "chapter" /\ pending[k].mounted
\* the flags are up exactly while a generation is in its try block and
\* while a save request is unanswered, and never both
C39_Flags ==
  /\ ~(isGenerating /\ isSaving)
  /\ isGenerating <=> gens # <<>>
  /\ isSaving <=> C39_SaveInFlight
  /\ Len(gens) <= 1
\* a generation or a save starts only when neither is in progress
C39_StartStep ==
  StartsGeneration \/ IssuesRequest("chapter")
    => ~isGenerating /\ ~isSaving
\* a click on either button while one of them is in progress does nothing
C39_BusyStep ==
  (isGenerating \/ isSaving) /\ (Gestured("generate") \/ Gestured("save"))
    => /\ ~last'.ok
       /\ gens' = gens
       /\ pending' = pending
       /\ isGenerating' = isGenerating
       /\ isSaving' = isSaving
\* C39: on the chapter-writing page isGenerating and isSaving are never
\* both true, neither a generation nor a save can be started while one of
\* them is in progress, and each flag is false again once its request or
\* stream has completed or failed.
C39_GenerateAndSaveExclusive ==
  [](C39_Flags) /\ [][C39_StartStep /\ C39_BusyStep]_vars
\* a save that started after a generation had ended, and a click on the
\* generate button that was ignored meanwhile
C39_Witness ==
  /\ screen = "chapter-writing"
  /\ writes = 2
  /\ isSaving
  /\ ~isGenerating
  /\ gens = <<>>
  /\ C39_SaveInFlight
  /\ last.act = "generate"
  /\ ~last.ok
\* a click on the save button ignored during a generation
C39_SaveIgnored ==
  /\ isGenerating
  /\ gens # <<>>
  /\ gens[1].pc = "stream"
  /\ ~WritingIsReadOnly
  /\ ~IsCurrentChapterLocked
  /\ last.act = "save"
  /\ ~last.ok
\* both flags down after a generation that failed and a save that failed
C39_BothEnded ==
  /\ writes = 2
  /\ ~isGenerating
  /\ ~isSaving
  /\ gens = <<>>
  /\ pending = <<>>
  /\ error # None

====
